---- MODULE Spec2Model ----
(***************************************************************************)
(* The River v2.0 python client (src/python-client/river): the session     *)
(* layer (seq/ack bookkeeping, send buffer, timers), the client transport  *)
(* (connect tasks, handshake, read loops, reconnection) and the client     *)
(* dispatch (streams with their readable and writable), run on one asyncio *)
(* event loop.  Every action is one uninterrupted run of python code       *)
(* between two suspension points of the loop.                              *)
(***************************************************************************)
EXTENDS Integers, Sequences, FiniteSets, TLC

\* ---------------------------------------------------------------- bounds
MaxSessions == 2      \* session objects ever constructed
MaxTasks    == 2      \* connection attempts (_do_connect tasks) ever started
MaxSeq      == 2      \* envelopes one session constructs
MaxInSeq    == 1      \* highest seq the peer stamps on an inbound frame
MaxStreams  == 2      \* procedure invocations
MaxReady    == MaxSeq + 2   \* handles the ready queue holds: a retransmitted buffer and two more
MaxPush     == 3      \* values pushed to the Readable taken on its own
MaxValue    == 2      \* the values pushed are 1..MaxValue
MaxReads    == 4      \* results the consumer of that Readable receives
MaxRefused  == 1      \* calls that Readable refuses by raising
MaxCalls    == 4      \* calls the Writable taken on its own and its callbacks receive
MaxDepth    == 2      \* levels of lists and maps in a payload the codecs are given
MaxMissing  == 2      \* keys of a message a received map lacks
MaxConsumed == 10     \* budget_consumed of the rate limit taken on its own
JitterGrid  == 25     \* milliseconds between two jitters tried
MaxFailed   == 3      \* attempts that failed before the transport short of budget is observed
MaxHandlers == 3      \* callables given to the EventDispatcher taken on its own
MaxReaders  == 3      \* next() calls made on the Readable with several readers

\* ------------------------------------------------------ program constants
AckBit          == 1
StreamOpenBit   == 2
StreamCancelBit == 4
StreamClosedBit == 8
base_interval_ms == 150
max_jitter_ms    == 200
max_backoff_ms   == 32000
attempt_budget_capacity == 5

SERVER == "SERVER"
Peers  == {SERVER}
NoSession == 0
NoWs      == 0
NoTask    == 0

SessionIds == 1..MaxSessions
TaskIds    == 1..MaxTasks
StreamIds  == 1..MaxStreams

HasBit(flags, bit) == (flags \div bit) % 2 = 1
is_ack(flags)           == HasBit(flags, AckBit)
is_stream_cancel(flags) == HasBit(flags, StreamCancelBit)
is_stream_close(flags)  == HasBit(flags, StreamClosedBit)

VARIABLES
  status,         \* WebSocketClientTransport._status
  sessions,       \* WebSocketClientTransport.sessions: peer -> id of its Session, NoSession if none
  session,        \* the Session objects ever constructed, by id
  retry_budget,   \* LeakyBucketRateLimit: budget_consumed, restore_task
  tasks,          \* the _do_connect coroutines ever created, by attempt; attempt t opens connection t
  connect_tasks,  \* WebSocketClientTransport._connect_tasks: peer -> latest attempt
  listen_tasks,   \* the running _listen coroutines: [sid, ws]
  ready,          \* the loop's ready queue of call_soon handles, FIFO
  wire,           \* per connection, the seqs of the envelopes handed to ws.send, in order
  ws_closed,      \* connections on which the client called close()
  streams,        \* the closures of _handle_proc, one per invocation
  log,            \* history: what each session accepted, dispatched and constructed,
                  \* and whether a send closure bound to it has raised
  recording,      \* the histories a specification keeps, of "log", "wire" (wire, ws_closed),
                  \* "order" (the frames out of order, in log) and "events" (emitted)
  readable,       \* one Readable on its own, with what was pushed to it and what its reads returned
  writable,       \* one Writable on its own, with the calls its two callbacks received
  emitted,        \* history: the sessionStatus, protocolError and transportStatus events
                  \* the last handler dispatched, in order
  call,           \* one call of a function without side effects: its inputs and what it returned
  reconnect_on_connection_drop,  \* WebSocketClientTransport._reconnect_on_connection_drop
  dispatcher,     \* one EventDispatcher on its own: the handlers of one event, and the calls of a dispatch
  readers         \* one Readable with several next() calls on one event loop

vars == <<status, sessions, session, retry_budget, tasks, connect_tasks,
          listen_tasks, ready, wire, ws_closed, streams, log, recording,
          readable, writable, emitted, call, reconnect_on_connection_drop,
          dispatcher, readers>>

\* -------------------------------------------------------------- Session
NewSession ==
  [state |-> "NoConnection", seq |-> 0, ack |-> 0, send_buffer |-> <<>>,
   ws |-> NoWs, destroyed |-> FALSE, heartbeat_miss_task |-> FALSE,
   grace_period_task |-> FALSE, on_connection_closed |-> FALSE,
   is_actively_heartbeating |-> FALSE, created |-> FALSE]

NewLog ==
  [accepted |-> <<>>, dispatched |-> <<>>, sent |-> <<>>, peer_ack |-> 0, refused |-> FALSE,
   out_of_order |-> {}]

\* A next_seq that ignores the send buffer.
next_seq_unbuffered(s) == s.seq

\* Session.next_seq
next_seq(s) == IF s.send_buffer # <<>> THEN s.send_buffer[1].seq ELSE s.seq

\* A partial message: payload kind, stream id, control flags, whether the
\* init fields (serviceName, procedureName) are set, and whether the codec
\* can serialize the payload.
Partial(payload, stream_id, control_flags, named, ser) ==
  [payload |-> payload, stream_id |-> stream_id, control_flags |-> control_flags,
   named |-> named, ser |-> ser]

\* A heartbeat without the Ack bit.
heartbeat_message_unflagged == Partial("ACK", "heartbeat", 0, FALSE, TRUE)

heartbeat_message == Partial("ACK", "heartbeat", AckBit, FALSE, TRUE)
close_stream_message(stream_id) == Partial("CLOSE", stream_id, StreamClosedBit, FALSE, TRUE)
\* The cancel built with the flags and payload of close_stream_message.
cancel_message_as_close(stream_id) == Partial("CLOSE", stream_id, StreamClosedBit, FALSE, TRUE)

cancel_message(stream_id) == Partial("CANCEL", stream_id, StreamCancelBit, FALSE, TRUE)

construct_msg(s, partial) ==
  [seq |-> s.seq, ack |-> s.ack, payload |-> partial.payload,
   stream_id |-> partial.stream_id, control_flags |-> partial.control_flags,
   named |-> partial.named, ser |-> partial.ser]

\* No handshake request: the local hs_msg of a _do_handshake not yet entered.
NoRequest ==
  [stream_id |-> "", seq |-> 0, ack |-> 0, control_flags |-> 0,
   session_id |-> NoSession, next_expected_seq |-> 0, next_sent_seq |-> 0]

\* Session.create_handshake_request: the envelope is built outside
\* construct_msg and send, so the session is not touched.
create_handshake_request(sid, s) ==
  [stream_id |-> "handshake", seq |-> 0, ack |-> 0, control_flags |-> 0,
   session_id |-> sid, next_expected_seq |-> s.ack, next_sent_seq |-> next_seq(s)]

\* Session._send_over_wire: the codec decides; on success one _do_ws_send
\* callback is handed to call_soon.
WriteHandle(sid, msg) == [type |-> "write", sid |-> sid, seq |-> msg.seq]

send_over_wire(sid, msg) ==
  IF msg.ser THEN [ok |-> TRUE, handles |-> <<WriteHandle(sid, msg)>>]
  ELSE [ok |-> FALSE, handles |-> <<>>]

\* Session.send on the object s with id sid: the object after the call, the
\* constructed envelope, the handles given to call_soon and the outcome.
Session_send(sid, s, partial) ==
  LET msg == construct_msg(s, partial)
      s1  == [s EXCEPT !.seq = s.seq + 1, !.send_buffer = Append(s.send_buffer, msg)]
      w   == IF s.state = "Connected" /\ s.ws # NoWs
             THEN send_over_wire(sid, msg)
             ELSE [ok |-> TRUE, handles |-> <<>>]
  IN [s |-> s1, msg |-> msg, handles |-> w.handles, ok |-> w.ok]

RECURSIVE BufferedHandles(_, _)
\* Session.send_buffered_messages: one callback per envelope until the first
\* that does not serialize.
BufferedHandles(sid, buf) ==
  IF buf = <<>> THEN [ok |-> TRUE, handles |-> <<>>]
  ELSE LET w == send_over_wire(sid, Head(buf))
       IN IF ~w.ok THEN [ok |-> FALSE, handles |-> <<>>]
          ELSE LET rest == BufferedHandles(sid, Tail(buf))
               IN [ok |-> rest.ok, handles |-> w.handles \o rest.handles]

\* The retransmission starting at the second buffered envelope.
send_buffered_skipping_first(sid, s) ==
  BufferedHandles(sid, IF s.send_buffer = <<>> THEN <<>> ELSE Tail(s.send_buffer))

send_buffered_messages(sid, s) == BufferedHandles(sid, s.send_buffer)

\* The filter with > in place of >=: it also drops the envelope at their_ack.
KeepAbove(buf, their_ack) == SelectSeq(buf, LAMBDA m : m.seq > their_ack)

\* The envelopes update_bookkeeping keeps in the send buffer.
KeepFrom(buf, their_ack) == SelectSeq(buf, LAMBDA m : m.seq >= their_ack)

update_bookkeeping(s, their_ack, their_seq) ==
  [s EXCEPT !.send_buffer = KeepFrom(s.send_buffer, their_ack),
            !.ack = their_seq + 1,
            !.heartbeat_miss_task = TRUE]

cancel_heartbeats(s) ==
  [s EXCEPT !.heartbeat_miss_task = FALSE, !.is_actively_heartbeating = FALSE]

set_connected(s, ws) ==
  [s EXCEPT !.state = "Connected", !.ws = ws, !.grace_period_task = FALSE,
            !.heartbeat_miss_task = TRUE]

\* A disconnection that keeps the socket handle and starts no grace timer.
set_disconnected_keeping_socket(s) ==
  [cancel_heartbeats(s) EXCEPT !.state = "NoConnection"]

\* Session.set_disconnected
set_disconnected(s) ==
  [cancel_heartbeats(s) EXCEPT !.state = "NoConnection", !.ws = NoWs,
                               !.grace_period_task = TRUE]

\* A destroy that leaves the send buffer in place.
destroy_keeping_buffer(s) ==
  [cancel_heartbeats(s) EXCEPT !.destroyed = TRUE, !.grace_period_task = FALSE,
                               !.ws = NoWs]

\* Session.destroy
destroy(s) ==
  [cancel_heartbeats(s) EXCEPT !.destroyed = TRUE, !.grace_period_task = FALSE,
                               !.ws = NoWs, !.send_buffer = <<>>]

\* A close that reaches no socket.
ClosedBy_nothing(s) == {}

\* The connections a Session method closes: the handle it held, if any.
ClosedBy(s) == IF s.ws # NoWs THEN {s.ws} ELSE {}

\* ------------------------------------------------- Readable / Writable
\* The values a readable can hold: results of the server ("ok", "err"),
\* and the error results that end a stream.
CANCEL_CODE == "CANCEL"
UNEXPECTED_DISCONNECT_CODE == "UNEXPECTED_DISCONNECT"
UNKNOWN_CODE == "UNKNOWN"

\* One invocation of _handle_proc: its Readable (pushed is every value ever
\* pushed, of which the first nread were consumed; the rest is _queue), its
\* Writable, and the closure variables.
NewStream ==
  [used |-> FALSE, to |-> SERVER, session_id |-> NoSession, proc_type |-> "rpc",
   pushed |-> <<>>, nread |-> 0, r_closed |-> FALSE, w_closed |-> FALSE,
   clean_close |-> TRUE, cleaned_up |-> FALSE, registered |-> FALSE,
   abort |-> "none"]

queue(st) == SubSeq(st.pushed, st.nread + 1, Len(st.pushed))

\* Readable.is_closed
Readable_is_closed(st) == st.r_closed /\ queue(st) = <<>>

\* _push_value without its guard.
CanPush_unguarded(st) == TRUE

\* Readable._push_value: raises on a closed readable.
CanPush(st) == ~st.r_closed
push_value(st, v) == [st EXCEPT !.pushed = Append(@, v)]

cleanup(st) ==
  IF st.cleaned_up THEN st
  ELSE [st EXCEPT !.cleaned_up = TRUE, !.registered = FALSE]

close_readable(st) ==
  LET st1 == IF ~Readable_is_closed(st) THEN [st EXCEPT !.r_closed = TRUE] ELSE st
  IN IF st1.w_closed THEN cleanup(st1) ELSE st1

\* req_writable._closed = True, when req_writable.is_writable()
mark_writable_closed(st) == [st EXCEPT !.w_closed = TRUE]

\* The wrapping applied to every payload, results included.
cancel_result_always_wrapped(payload) == UNKNOWN_CODE

\* What on_message pushes for the payload of a StreamCancel message: the
\* payload itself when it is a result (has an `ok` key), else an error
\* result wrapped around it.
cancel_result(payload) ==
  IF payload \in {"ok", "err", CANCEL_CODE} THEN payload ELSE UNKNOWN_CODE

\* An on_message without the test of the stream id.
on_message_of_any_stream(i, st, msg) ==
  IF ~msg.to_me THEN st
  ELSE IF msg.payload \in {"ok", "err", CANCEL_CODE} /\ CanPush(st)
  THEN push_value(st, msg.payload)
  ELSE st

\* on_message of stream i for a dispatched message; an exception raised by
\* _push_value ends the handler where it is raised (EventDispatcher.dispatch
\* catches it).
on_message(i, st, msg) ==
  IF msg.stream_id # i \/ ~msg.to_me THEN st
  ELSE IF is_stream_cancel(msg.control_flags) THEN
    LET st1 == [st EXCEPT !.clean_close = FALSE]
        v   == cancel_result(msg.payload)
    IN IF ~CanPush(st1) THEN st1
       ELSE mark_writable_closed(close_readable(push_value(st1, v)))
  ELSE IF Readable_is_closed(st) THEN st
  ELSE
    LET has_value == msg.payload \in {"ok", "err", CANCEL_CODE}
    IN IF has_value /\ ~CanPush(st) THEN st
       ELSE LET st1 == IF has_value THEN push_value(st, msg.payload) ELSE st
            IN IF is_stream_close(msg.control_flags) THEN close_readable(st1) ELSE st1

on_session_status(st, evt_status, to, sid) ==
  IF evt_status # "closing" \/ to # st.to \/ sid # st.session_id THEN st
  ELSE
    LET st1 == [st EXCEPT !.clean_close = FALSE]
        st2 == IF CanPush(st1) THEN push_value(st1, UNEXPECTED_DISCONNECT_CODE) ELSE st1
    IN mark_writable_closed(close_readable(st2))

\* ------------------------------------------- Readable, as an object
\* Readable.__init__, with the consumer's side: the coroutine it has
\* pending in a read, its iterator, and the history of what was pushed and
\* of what every read returned.
Values == 1..MaxValue

NewReadable ==
  [queue |-> <<>>, closed |-> FALSE, broken |-> FALSE, locked |-> FALSE,
   pending |-> "idle",      \* the read that awaits a waiter future
   iterator |-> "none",     \* the _ReadableIterator: none, live, done (_done), dropped
   acquired |-> 0,          \* calls of collect and __aiter__ that passed the lock test
   usage_errors |-> 0,      \* calls that raised TypeError or RuntimeError
   pushed |-> <<>>,
   outcomes |-> <<>>,
   broke_at |-> -1,         \* Len(outcomes) when break_ first set broken
   discarded |-> FALSE]     \* __del__ of the iterator cleared a queue that held values

ValueOutcome(v) == [kind |-> "value", v |-> v]
BrokenOutcome == [kind |-> "READABLE_BROKEN", v |-> 0]
DoneOutcome == [kind |-> "done", v |-> 0]

Raised(r) == [r EXCEPT !.usage_errors = @ + 1]

Returned(r, outcome) == [r EXCEPT !.outcomes = Append(@, outcome), !.pending = "idle"]

\* Readable._push_value
Readable_push_value(r, v) ==
  IF r.closed THEN Raised(r)
  ELSE [r EXCEPT !.queue = Append(@, v), !.pushed = Append(@, v)]

\* Readable._trigger_close
trigger_close(r) ==
  IF r.closed THEN Raised(r) ELSE [r EXCEPT !.closed = TRUE]

\* Readable.break_
break_(r) ==
  IF r.locked /\ r.broken THEN r
  ELSE IF r.closed /\ r.queue = <<>> THEN [r EXCEPT !.locked = TRUE]
  ELSE [r EXCEPT !.locked = TRUE, !.broken = TRUE, !.queue = <<>>,
                 !.broke_at = Len(r.outcomes)]

\* A pop from the other end: list.pop().
pop_last(q) == [value |-> q[Len(q)], rest |-> SubSeq(q, 1, Len(q) - 1)]

\* self._queue.pop(0): the head of the queue leaves it.
pop_first(q) == [value |-> Head(q), rest |-> Tail(q)]

\* One run of the loop of _iterate under next(): to the first yield, to the
\* return, or to the await of a waiter.  next() returns at the first item
\* and leaves the generator suspended at its yield.
iterate_next(r) ==
  IF r.broken THEN Returned(r, BrokenOutcome)
  ELSE IF r.queue # <<>>
    THEN Returned([r EXCEPT !.queue = pop_first(r.queue).rest],
                  ValueOutcome(pop_first(r.queue).value))
  ELSE IF r.closed THEN Returned(r, DoneOutcome)
  ELSE [r EXCEPT !.pending = "next"]

\* Readable.next: the lock is set by _iterate and never tested.
Readable_next(r) == iterate_next([r EXCEPT !.locked = TRUE])

\* One run of the loop of _iterate under collect(): every yield is taken
\* and appended to results, up to the return or to the await of a waiter.
RECURSIVE iterate_collect(_)
iterate_collect(r) ==
  IF r.broken
    THEN Returned([r EXCEPT !.outcomes = Append(@, BrokenOutcome)], DoneOutcome)
  ELSE IF r.queue # <<>>
    THEN iterate_collect([r EXCEPT !.queue = pop_first(r.queue).rest,
                                   !.outcomes = Append(@, ValueOutcome(pop_first(r.queue).value))])
  ELSE IF r.closed THEN Returned(r, DoneOutcome)
  ELSE [r EXCEPT !.pending = "collect"]

\* An acquisition that does not look at the lock.
lock_never_tested(r) == FALSE

\* The test `if self._locked: raise TypeError` of collect and __aiter__.
already_locked(r) == r.locked

\* Readable.collect
collect(r) ==
  IF already_locked(r) THEN Raised(r)
  ELSE iterate_collect([r EXCEPT !.locked = TRUE, !.acquired = @ + 1])

\* Readable.__aiter__
aiter(r) ==
  IF already_locked(r) THEN Raised(r)
  ELSE [r EXCEPT !.locked = TRUE, !.acquired = @ + 1, !.iterator = "live"]

\* One run of the loop of _ReadableIterator.__anext__.
anext_loop(r) ==
  IF r.broken THEN Returned([r EXCEPT !.iterator = "done"], BrokenOutcome)
  ELSE IF r.queue # <<>>
    THEN Returned([r EXCEPT !.queue = pop_first(r.queue).rest],
                  ValueOutcome(pop_first(r.queue).value))
  ELSE IF r.closed THEN Returned(r, DoneOutcome)
  ELSE [r EXCEPT !.pending = "anext"]

\* _ReadableIterator.__anext__; StopAsyncIteration is the done outcome.
anext(r) ==
  IF r.iterator = "done" THEN Returned(r, DoneOutcome) ELSE anext_loop(r)

\* _ReadableIterator.__del__
iterator_del(r) ==
  [r EXCEPT !.queue = <<>>, !.iterator = "dropped",
            !.discarded = @ \/ r.queue # <<>>]

\* A waiter future was resolved by _notify_waiters: the pending read runs
\* its loop again.
resume(r) ==
  CASE r.pending = "next" -> iterate_next(r)
    [] r.pending = "collect" -> iterate_collect(r)
    [] r.pending = "anext" -> anext_loop(r)

\* ------------------------------- a Readable with several readers
\* The Readable (queue, closed, waiters, and pushed, the history of its
\* values), the next() calls made on it in the order they were issued (of),
\* and the handles of the loop's ready queue that start or wake one of
\* them.  A call that returned keeps its result and, for a value, the
\* position nth the value has among those pushed.
NoOutcome == [kind |-> "none", v |-> 0]

NewReaders ==
  [queue |-> <<>>, closed |-> FALSE, waiters |-> <<>>, pushed |-> <<>>,
   ready |-> <<>>, of |-> <<>>]

NewCall == [pc |-> "created", outcome |-> NoOutcome, nth |-> 0]

\* Readable._notify_waiters: every waiter future is resolved, which puts
\* the wake-up of its task on the ready queue.
notify_waiters(r) == [r EXCEPT !.ready = @ \o r.waiters, !.waiters = <<>>]

\* Readable._push_value and _trigger_close on an open Readable.
readers_push_value(r, v) ==
  notify_waiters([r EXCEPT !.queue = Append(@, v), !.pushed = Append(@, v)])

readers_trigger_close(r) == notify_waiters([r EXCEPT !.closed = TRUE])

\* The loop of _iterate under the k-th next(): to the first yield, to the
\* return, or to the await of a new waiter future.
readers_iterate(r, k) ==
  IF r.queue # <<>>
  THEN [r EXCEPT !.queue = pop_first(r.queue).rest,
                 !.of[k] = [pc |-> "returned",
                            outcome |-> ValueOutcome(pop_first(r.queue).value),
                            nth |-> Len(r.pushed) - Len(r.queue) + 1]]
  ELSE IF r.closed
  THEN [r EXCEPT !.of[k] = [pc |-> "returned", outcome |-> DoneOutcome, nth |-> 0]]
  ELSE [r EXCEPT !.waiters = Append(@, k), !.of[k].pc = "waiting"]

ReadersStep(r) ==
  /\ readers' = r
  /\ UNCHANGED <<status, sessions, session, retry_budget, tasks, connect_tasks,
                 listen_tasks, ready, wire, ws_closed, streams, log, recording, readable,
                 writable, emitted, call, reconnect_on_connection_drop, dispatcher>>

\* asyncio.ensure_future(r.next()): the call is a task that waits in the
\* ready queue for its first step.
EnsureFuture ==
  /\ Len(readers.of) < MaxReaders
  /\ ReadersStep([readers EXCEPT !.of = Append(@, NewCall),
                                 !.ready = Append(@, Len(readers.of) + 1)])

\* `await r.next()` in the running coroutine: the call runs at once.
AwaitNext ==
  /\ Len(readers.of) < MaxReaders
  /\ ReadersStep(readers_iterate([readers EXCEPT !.of = Append(@, NewCall)],
                                 Len(readers.of) + 1))

\* The loop runs the first handle of the ready queue.
RunReader ==
  /\ readers.ready # <<>>
  /\ ReadersStep(readers_iterate([readers EXCEPT !.ready = Tail(@)], Head(readers.ready)))

PushValue(v) ==
  /\ ~readers.closed
  /\ Len(readers.pushed) < MaxPush
  /\ ReadersStep(readers_push_value(readers, v))

TriggerClose ==
  /\ ~readers.closed
  /\ ReadersStep(readers_trigger_close(readers))

\* ------------------------------------------- Writable, as an object
\* Writable.__init__ with two callbacks that count their calls.
NewWritable ==
  [closed |-> FALSE, write_cb |-> 0, close_cb |-> 0, errors |-> 0, close_calls |-> 0]

\* Writable.write
Writable_write(w, value) ==
  IF w.closed THEN [w EXCEPT !.errors = @ + 1]
  ELSE [w EXCEPT !.write_cb = @ + 1]

\* A close that does not look at the flag.
closed_never_tested(w) == FALSE

\* The test `if self._closed: return` of Writable.close.
close_is_repeated(w) == w.closed

\* Writable.close; value is TRUE for a final value, FALSE for None.
Writable_close(w, value) ==
  IF close_is_repeated(w) THEN [w EXCEPT !.close_calls = @ + 1]
  ELSE [w EXCEPT !.closed = TRUE, !.close_calls = @ + 1,
                 !.write_cb = IF value THEN @ + 1 ELSE @,
                 !.close_cb = @ + 1]

\* ------------------------------------------------------------ the world
\* The mutable state as one value, so that a python method is an operator
\* from the state before the call to the state after it; fits turns FALSE
\* when a call needs more than the bounds of the model allow.
Cur ==
  [status |-> status, sessions |-> sessions, session |-> session,
   retry_budget |-> retry_budget, tasks |-> tasks, connect_tasks |-> connect_tasks,
   listen_tasks |-> listen_tasks, ready |-> ready, wire |-> wire,
   ws_closed |-> ws_closed, streams |-> streams, log |-> log, events |-> <<>>,
   reconnect_on_connection_drop |-> reconnect_on_connection_drop, fits |-> TRUE]

Commit(w) ==
  /\ w.fits
  /\ status' = w.status
  /\ sessions' = w.sessions
  /\ session' = w.session
  /\ retry_budget' = w.retry_budget
  /\ tasks' = w.tasks
  /\ connect_tasks' = w.connect_tasks
  /\ listen_tasks' = w.listen_tasks
  /\ ready' = w.ready
  /\ streams' = w.streams
  /\ wire' = IF "wire" \in recording THEN w.wire ELSE wire
  /\ ws_closed' = IF "wire" \in recording THEN w.ws_closed ELSE ws_closed
  /\ log' = IF "log" \in recording THEN w.log ELSE log
  /\ emitted' = IF "events" \in recording THEN w.events ELSE emitted
  /\ recording' = recording
  /\ reconnect_on_connection_drop' = w.reconnect_on_connection_drop
  /\ UNCHANGED <<readable, writable, call, dispatcher, readers>>

\* loop.call_soon / loop.create_task: the handles join the ready queue.
call_soon(w, handles) ==
  [w EXCEPT !.ready = @ \o handles,
            !.fits = @ /\ Len(w.ready) + Len(handles) <= MaxReady]

\* EventDispatcher.dispatch of "message" and of "sessionStatus" to the
\* listeners the streams registered.
dispatch_message(w, msg) ==
  [w EXCEPT !.streams = [i \in StreamIds |->
      IF w.streams[i].registered THEN on_message(i, w.streams[i], msg) ELSE w.streams[i]]]

dispatch_session_status(w, evt_status, to, sid) ==
  [w EXCEPT !.streams = [i \in StreamIds |->
      IF w.streams[i].registered
      THEN on_session_status(w.streams[i], evt_status, to, sid) ELSE w.streams[i]],
            !.events = Append(@, [event |-> "sessionStatus", detail |-> evt_status, sid |-> sid])]

\* EventDispatcher.dispatch of "protocolError" (detail: its type, and for a
\* rejected handshake its code) and of "transportStatus": the streams do
\* not listen to them.
dispatch_protocol_error(w, detail) ==
  [w EXCEPT !.events = Append(@, [event |-> "protocolError", detail |-> detail, sid |-> NoSession])]

dispatch_transport_status(w, detail) ==
  [w EXCEPT !.events = Append(@, [event |-> "transportStatus", detail |-> detail, sid |-> NoSession])]

\* ------------------------------------------------------------ Transport
Created(w) == {i \in SessionIds : w.session[i].created}
Started(w) == {t \in TaskIds : w.tasks[t].pc # "none"}

\* WebSocketClientTransport._get_or_create_session
get_or_create_session(w, to) ==
  IF w.sessions[to] # NoSession THEN w
  ELSE LET id == Cardinality(Created(w)) + 1
       IN IF id > MaxSessions THEN [w EXCEPT !.fits = FALSE]
          ELSE dispatch_session_status(
                 [w EXCEPT !.session[id] = [NewSession EXCEPT !.created = TRUE],
                           !.sessions[to] = id],
                 "created", to, id)

\* _delete_session(to, emit_closing=False)
delete_session_silently(w, to) ==
  LET sid == w.sessions[to]
  IN IF sid = NoSession THEN w
     ELSE dispatch_session_status(
            [w EXCEPT !.sessions[to] = NoSession,
                      !.ws_closed = @ \cup ClosedBy(w.session[sid]),
                      !.session[sid] = destroy(@)],
            "closed", to, sid)

\* WebSocketClientTransport._delete_session
delete_session(w, to) ==
  LET sid == w.sessions[to]
  IN IF sid = NoSession THEN w
     ELSE LET w1 == dispatch_session_status(
                      [w EXCEPT !.sessions[to] = NoSession], "closing", to, sid)
              w2 == [w1 EXCEPT !.ws_closed = @ \cup ClosedBy(w1.session[sid]),
                               !.session[sid] = destroy(@)]
          IN dispatch_session_status(w2, "closed", to, sid)

\* A budget that allows one attempt more than its capacity.
has_budget_at_capacity(b) == b.budget_consumed <= attempt_budget_capacity

\* LeakyBucketRateLimit.has_budget
has_budget(b) == b.budget_consumed < attempt_budget_capacity

consume_budget(b) ==
  [b EXCEPT !.restore_task = FALSE, !.budget_consumed = @ + 1]

Min(a, b) == IF a < b THEN a ELSE b

get_backoff_ms_uncapped(b, jitter) ==
  IF b.budget_consumed = 0 THEN 0
  ELSE base_interval_ms * (2 ^ (b.budget_consumed - 1)) + jitter

\* LeakyBucketRateLimit.get_backoff_ms; jitter is what
\* random.random() * max_jitter_ms gave, in whole milliseconds.
get_backoff_ms(b, jitter) ==
  IF b.budget_consumed = 0 THEN 0
  ELSE LET exponent == IF b.budget_consumed - 1 > 0 THEN b.budget_consumed - 1 ELSE 0
           backoff  == Min(base_interval_ms * (2 ^ exponent), max_backoff_ms)
       IN backoff + jitter

start_restoring_budget(b) == [b EXCEPT !.restore_task = TRUE]

reset(b) == [b EXCEPT !.budget_consumed = 0, !.restore_task = FALSE]

\* A test that lets a session that is backing off, connecting or
\* handshaking start another attempt.
connected_already(s) == s.state = "Connected"

\* connect: `session.state != SessionState.NO_CONNECTION`
attempt_in_progress(s) == s.state # "NoConnection"

\* WebSocketClientTransport.connect: the attempt it starts is a task whose
\* first step waits in the ready queue.
connect(w, to) ==
  IF w.status # "open" THEN w
  ELSE
    LET w1  == get_or_create_session(w, to)
        sid == w1.sessions[to]
        t   == Cardinality(Started(w1)) + 1
    IN IF ~w1.fits \/ attempt_in_progress(w1.session[sid]) THEN w1
       ELSE IF ~has_budget(w1.retry_budget)
         THEN dispatch_protocol_error(w1, "conn_retry_exceeded")
       ELSE IF t > MaxTasks THEN [w1 EXCEPT !.fits = FALSE]
       ELSE call_soon(
              [w1 EXCEPT !.retry_budget = consume_budget(@),
                         !.session[sid].state = "BackingOff",
                         !.tasks[t] = [pc |-> "created", sid |-> sid, to |-> to,
                                       hs_msg |-> NoRequest,
                                       backoff |-> w1.retry_budget.budget_consumed > 0],
                         !.connect_tasks[to] = t],
              <<[type |-> "task", task |-> t]>>)

\* WebSocketClientTransport._try_reconnecting
try_reconnecting(w, to) ==
  IF w.status # "open" THEN w
  ELSE IF ~w.reconnect_on_connection_drop THEN w
  ELSE call_soon(w, <<[type |-> "connect", to |-> to]>>)

\* WebSocketClientTransport._on_connection_failed
on_connection_failed(w, to) ==
  LET sid == w.sessions[to]
  IN IF sid = NoSession \/ w.session[sid].destroyed THEN w
     ELSE LET w1 == [w EXCEPT !.session[sid].state = "NoConnection"]
          IN IF w.reconnect_on_connection_drop THEN try_reconnecting(w1, to) ELSE w1

\* WebSocketClientTransport._on_connection_dropped
on_connection_dropped(w, to) ==
  LET sid == w.sessions[to]
  IN IF sid = NoSession \/ w.session[sid].destroyed THEN w
     ELSE IF w.session[sid].state # "Connected" THEN w
     ELSE LET w1 == [w EXCEPT !.ws_closed = @ \cup ClosedBy(w.session[sid]),
                              !.session[sid] = set_disconnected(@)]
          IN IF w.reconnect_on_connection_drop THEN try_reconnecting(w1, to) ELSE w1

\* Session.send called on session sid, whatever its result.
send_on(w, sid, partial) ==
  LET r == Session_send(sid, w.session[sid], partial)
  IN call_soon(
       [w EXCEPT !.session[sid] = r.s,
                 !.log[sid].sent = Append(@, r.msg),
                 !.fits = @ /\ r.msg.seq < MaxSeq],
       r.handles)

\* The closure of get_session_bound_send_fn(to, session_id): whether the
\* call raises, and the state after it.
\* The guards without the comparison of the session id.
SendFnRaises_any_session(w, to, session_id) ==
  LET sid == w.sessions[to]
  IN \/ sid = NoSession
     \/ w.session[sid].destroyed

SendFnRaises(w, to, session_id) ==
  LET sid == w.sessions[to]
  IN \/ sid = NoSession
     \/ sid # session_id
     \/ w.session[sid].destroyed

session_bound_send(w, to, session_id, partial) ==
  IF SendFnRaises(w, to, session_id)
  THEN [w |-> [w EXCEPT !.log[session_id].refused = TRUE], raised |-> TRUE]
  ELSE LET sid == w.sessions[to]
           r   == Session_send(sid, w.session[sid], partial)
       IN [w |-> send_on(w, sid, partial), raised |-> ~r.ok]

\* The ordering check of _on_message_data: the frame is the expected one.
\* The ordering check with >= in place of ==: it lets a future seq through.
seq_expected_any_future(s, frame) == frame.seq >= s.ack

\* The ordering check that lets a seq below ack through as well.
seq_expected_or_duplicate(s, frame) == frame.seq <= s.ack

seq_expected(s, frame) == frame.seq = s.ack

\* History: session sid was given a frame out of order, below its ack
\* ("duplicate") or above it ("future").
Noted(w, sid, what) ==
  IF "order" \in recording THEN [w EXCEPT !.log[sid].out_of_order = @ \cup {what}] ELSE w

\* WebSocketClientTransport._on_message_data for a frame read by a listener
\* of session sid.
on_message_data(w, sid, frame, to) ==
  LET s == w.session[sid]
  IN IF ~frame.decodable THEN dispatch_protocol_error(w, "invalid_message")
     ELSE IF ~seq_expected(s, frame) THEN
       IF frame.seq < s.ack THEN Noted(w, sid, "duplicate")
       ELSE Noted([w EXCEPT !.ws_closed = @ \cup ClosedBy(s)], sid, "future")
     ELSE
       LET w1 == [w EXCEPT !.session[sid] = update_bookkeeping(@, frame.ack, frame.seq),
                           !.log[sid].accepted =
                             Append(@, [seq |-> frame.seq, hb |-> is_ack(frame.control_flags)]),
                           !.log[sid].peer_ack = IF frame.ack > @ THEN frame.ack ELSE @]
       IN IF ~is_ack(frame.control_flags)
          THEN dispatch_message([w1 EXCEPT !.log[sid].dispatched = Append(@, frame.seq)],
                                frame)
          ELSE IF ~w1.session[sid].is_actively_heartbeating
               THEN send_on(w1, sid, heartbeat_message)
               ELSE w1

\* -------------------------------------------------- the connect task
NoTaskYet ==
  [pc |-> "none", sid |-> NoSession, to |-> SERVER, backoff |-> FALSE, hs_msg |-> NoRequest]

\* A finished coroutine keeps nothing.
TaskDone(w, t) == [w EXCEPT !.tasks[t] = [NoTaskYet EXCEPT !.pc = "done"]]

\* _do_connect after the backoff sleep, up to the await of the connection.
after_backoff(w, t) ==
  LET sid == w.tasks[t].sid
  IN IF w.status # "open" \/ w.session[sid].destroyed THEN TaskDone(w, t)
     ELSE [w EXCEPT !.session[sid].state = "Connecting", !.tasks[t].pc = "connecting"]

\* The first step of _do_connect, run from the ready queue; a task
\* cancelled before it started does nothing.
task_start(w, t) ==
  IF w.tasks[t].pc # "created" THEN w
  ELSE IF w.tasks[t].backoff THEN [w EXCEPT !.tasks[t].pc = "sleeping"]
  ELSE after_backoff(w, t)

\* _do_connect when _create_connection returned connection t, then
\* _do_handshake up to the await of the response.
connection_opened(w, t) ==
  LET sid == w.tasks[t].sid
  IN IF w.session[sid].destroyed
     THEN TaskDone([w EXCEPT !.ws_closed = @ \cup {t}], t)
     ELSE [w EXCEPT !.session[sid].state = "Handshaking", !.tasks[t].pc = "handshaking",
                    !.tasks[t].hs_msg = create_handshake_request(sid, w.session[sid])]

\* _do_connect when an await raised (connection refused or timed out, or
\* ws.send of the handshake failed).
task_raised(w, t) ==
  LET w1 == TaskDone(w, t)
  IN IF ~w.session[w.tasks[t].sid].destroyed
     THEN on_connection_failed(w1, w.tasks[t].to) ELSE w1

HandshakeResponses == {"ok", "other_session_id", "SESSION_STATE_MISMATCH", "fatal", "invalid"}

\* _do_handshake from the arrival of the response (or the timeout).
handshake_response(w, t, resp) ==
  LET sid == w.tasks[t].sid
      to  == w.tasks[t].to
      w0  == TaskDone(w, t)
      closed == [w0 EXCEPT !.ws_closed = @ \cup {t}]
  IN CASE resp = "invalid" -> on_connection_failed(closed, to)
       [] resp = "SESSION_STATE_MISMATCH" -> try_reconnecting(delete_session(closed, to), to)
       [] resp = "fatal" -> on_connection_failed(dispatch_protocol_error(closed, "fatal"), to)
       [] resp = "other_session_id" -> try_reconnecting(delete_session(w0, to), to)
       [] resp = "ok" ->
            LET w1 == [w0 EXCEPT !.session[sid] = set_connected(@, t)]
                b  == send_buffered_messages(sid, w1.session[sid])
                w2 == call_soon(w1, b.handles)
            IN IF ~b.ok
               THEN delete_session(dispatch_protocol_error(w2, "message_send_failure"), to)
               ELSE call_soon(
                      [w2 EXCEPT !.retry_budget = start_restoring_budget(@),
                                 !.session[sid].on_connection_closed = TRUE],
                      <<[type |-> "listen", sid |-> sid, ws |-> t]>>)

\* Session._do_ws_send, run from the ready queue.
do_ws_send(w, sid, seq) ==
  LET s == w.session[sid]
  IN IF s.ws # NoWs /\ ~s.destroyed
     THEN [w EXCEPT !.wire[s.ws] = Append(@, seq)] ELSE w

\* One handle of the ready queue runs.
run_handle(w, h) ==
  CASE h.type = "write"   -> do_ws_send(w, h.sid, h.seq)
    [] h.type = "connect" -> connect(w, h.to)
    [] h.type = "task"    -> task_start(w, h.task)
    [] h.type = "listen"  -> [w EXCEPT !.listen_tasks = @ \cup {[sid |-> h.sid, ws |-> h.ws]}]

\* WebSocketClientTransport.close
RECURSIVE CancelAll(_, _)
CancelAll(w, ts) ==
  IF ts = {} THEN w
  ELSE LET t == CHOOSE x \in ts : TRUE
       IN CancelAll(TaskDone(w, t), ts \ {t})

close(w) ==
  IF w.status = "closed" THEN w
  ELSE
    LET w1 == [w EXCEPT !.status = "closed"]
        w2 == CancelAll(w1, {w1.connect_tasks[to] : to \in Peers} \ {NoTask})
        w3 == [w2 EXCEPT !.connect_tasks = [to \in Peers |-> NoTask]]
        w4 == delete_session(w3, SERVER)
    IN dispatch_transport_status([w4 EXCEPT !.retry_budget = reset(@)], "closed")

\* ------------------------------------------------------------- actions
RunReady ==
  /\ ready # <<>>
  /\ Commit(run_handle([Cur EXCEPT !.ready = Tail(ready)], Head(ready)))

Connect(to) == Commit(connect(Cur, to))

BackoffElapsed(t) ==
  /\ tasks[t].pc = "sleeping"
  /\ Commit(after_backoff(Cur, t))

ConnectionOpened(t) ==
  /\ tasks[t].pc = "connecting"
  /\ Commit(connection_opened(Cur, t))

TaskRaised(t) ==
  /\ tasks[t].pc \in {"connecting", "handshaking"}
  /\ Commit(task_raised(Cur, t))

HandshakeResponse(t, resp) ==
  /\ tasks[t].pc = "handshaking"
  /\ Commit(handshake_response(Cur, t, resp))

\* _listen: one frame read from the socket; the loop breaks when the
\* session was destroyed.
ListenFrame(l, frame) ==
  /\ l \in listen_tasks
  /\ IF session[l.sid].destroyed
     THEN Commit([Cur EXCEPT !.listen_tasks = @ \ {l}])
     ELSE Commit(on_message_data(Cur, l.sid, frame, SERVER))

\* _listen: the socket ended (EOF, error, close); the finally block runs.
ListenEnd(l) ==
  /\ l \in listen_tasks
  /\ LET w == [Cur EXCEPT !.listen_tasks = @ \ {l}]
     IN IF session[l.sid].destroyed THEN Commit(w)
        ELSE Commit(on_connection_dropped(w, SERVER))

\* _miss_timeout of session sid fires.
HeartbeatMiss(sid) ==
  /\ session[sid].heartbeat_miss_task
  /\ LET w == [Cur EXCEPT !.session[sid].heartbeat_miss_task = FALSE]
     IN IF ~session[sid].destroyed /\ session[sid].on_connection_closed
        THEN Commit(on_connection_dropped(w, SERVER)) ELSE Commit(w)

\* _grace_timeout of session sid fires.
GraceElapsed(sid) ==
  /\ session[sid].grace_period_task
  /\ LET w == [Cur EXCEPT !.session[sid].grace_period_task = FALSE]
     IN IF ~session[sid].destroyed THEN Commit(delete_session(w, SERVER)) ELSE Commit(w)

\* _restore_loop wakes from its sleep.
RestoreBudget ==
  /\ retry_budget.restore_task
  /\ LET c == IF retry_budget.budget_consumed > 0
              THEN retry_budget.budget_consumed - 1 ELSE 0
     IN Commit([Cur EXCEPT !.retry_budget = [budget_consumed |-> c, restore_task |-> c > 0]])

Close == Commit(close(Cur))

\* The setter of reconnect_on_connection_drop.
SetReconnectOnConnectionDrop(value) ==
  Commit([Cur EXCEPT !.reconnect_on_connection_drop = value])

\* ------------------------------------------------------ client dispatch
ProcTypes == {"rpc", "stream", "upload", "subscription"}
proc_closes_with_init(proc_type) == proc_type \in {"rpc", "subscription"}

init_flags(proc_type) ==
  IF proc_closes_with_init(proc_type) THEN StreamOpenBit + StreamClosedBit
  ELSE StreamOpenBit

\* send_fn(...) inside a try/except RuntimeError of stream closure i.
stream_send(w, i, partial) ==
  session_bound_send(w, w.streams[i].to, w.streams[i].session_id, partial)

\* A status that never reports the close.
get_status_unchecked(w) == "open"

\* WebSocketClientTransport.get_status
get_status(w) == w.status

\* RiverClient._handle_proc, as invocation i.
handle_proc(w, i, proc_type, ser, with_abort) ==
  IF get_status(w) # "open" THEN
    [w EXCEPT !.streams[i] =
       [NewStream EXCEPT !.used = TRUE, !.proc_type = proc_type,
                         !.pushed = <<UNEXPECTED_DISCONNECT_CODE>>,
                         !.r_closed = TRUE, !.w_closed = TRUE]]
  ELSE
    LET w1  == get_or_create_session(connect(w, SERVER), SERVER)
        sid == w1.sessions[SERVER]
        w2  == [w1 EXCEPT !.streams[i] =
                  [NewStream EXCEPT !.used = TRUE, !.proc_type = proc_type,
                                    !.session_id = sid, !.registered = TRUE,
                                    !.abort = IF with_abort THEN "watching" ELSE "none"]]
        r   == stream_send(w2, i, Partial("init", i, init_flags(proc_type), TRUE, ser))
    IN IF ~w1.fits THEN w1
       ELSE IF r.raised THEN
         [r.w EXCEPT !.streams[i] =
            cleanup(mark_writable_closed(
              [push_value(@, UNEXPECTED_DISCONNECT_CODE) EXCEPT !.r_closed = TRUE]))]
       ELSE IF proc_closes_with_init(proc_type)
       THEN [r.w EXCEPT !.streams[i] = mark_writable_closed(@)]
       ELSE r.w

\* A write that does not look at the writable.
writable_write_unchecked(w, i, ser) ==
  stream_send(w, i, Partial("data", i, 0, FALSE, ser)).w

\* Writable.write of stream i: write_cb when the writable is open.
writable_write(w, i, ser) ==
  IF w.streams[i].w_closed THEN w
  ELSE stream_send(w, i, Partial("data", i, 0, FALSE, ser)).w

\* close_cb of stream i.
close_cb(w, i) ==
  LET st == w.streams[i]
      w1 == IF ~proc_closes_with_init(st.proc_type) /\ st.clean_close
            THEN stream_send(w, i, close_stream_message(i)).w ELSE w
  IN IF Readable_is_closed(st) THEN [w1 EXCEPT !.streams[i] = cleanup(@)] ELSE w1

\* Writable.close(value) of stream i; with_value: a final value is written.
writable_close(w, i, with_value) ==
  IF w.streams[i].w_closed THEN w
  ELSE LET w1 == [w EXCEPT !.streams[i] = mark_writable_closed(@)]
           w2 == IF with_value
                 THEN stream_send(w1, i, Partial("data", i, 0, FALSE, TRUE)).w ELSE w1
       IN close_cb(w2, i)

\* on_client_cancel of stream i.
on_client_cancel(w, i) ==
  LET st1 == [w.streams[i] EXCEPT !.clean_close = FALSE]
      st2 == IF CanPush(st1) THEN push_value(st1, CANCEL_CODE) ELSE st1
      w1  == [w EXCEPT !.streams[i] = mark_writable_closed(close_readable(st2))]
  IN stream_send(w1, i, cancel_message(i)).w

NextStream == Cardinality({i \in StreamIds : streams[i].used}) + 1

Invoke(proc_type, ser, with_abort) ==
  /\ NextStream \in StreamIds
  /\ Commit(handle_proc(Cur, NextStream, proc_type, ser, with_abort))

Write(i, ser) ==
  /\ streams[i].used
  /\ Commit(writable_write(Cur, i, ser))

CloseWritable(i, with_value) ==
  /\ streams[i].used
  /\ Commit(writable_close(Cur, i, with_value))

\* The consumer's Readable.next() takes the head of the queue.
Read(i) ==
  /\ streams[i].used
  /\ queue(streams[i]) # <<>>
  /\ Commit([Cur EXCEPT !.streams[i].nread = @ + 1])

\* _watch_abort of stream i wakes: the abort signal was set.
Abort(i) ==
  /\ streams[i].abort = "watching"
  /\ Commit(on_client_cancel([Cur EXCEPT !.streams[i].abort = "fired"], i))

\* A caller holding the closure get_session_bound_send_fn(to, session_id)
\* calls it.
BoundSend(session_id, ser) ==
  /\ session[session_id].created
  /\ Commit(session_bound_send(Cur, SERVER, session_id,
                               Partial("data", 0, 0, FALSE, ser)).w)

\* ------------------------------------------------------- inbound frames
\* A frame as the adapter returns it: the fields of the message, whether
\* from_buffer accepted the bytes, and the keys their map lacked.
Frame(seq, ack, control_flags, stream_id, payload, to_me, decodable) ==
  [seq |-> seq, ack |-> ack, control_flags |-> control_flags, stream_id |-> stream_id,
   payload |-> payload, to_me |-> to_me, decodable |-> decodable, lacks |-> {}]

\* The keys the wire format requires of a message.
required_with_control_flags ==
  {"id", "from", "to", "seq", "ack", "payload", "streamId", "controlFlags"}

\* CodecMessageAdapter.from_buffer: the tuple of the keys it tests
required == {"id", "from", "to", "seq", "ack", "payload", "streamId"}

\* The frame whose map lacks the keys: from_buffer refuses it when one of
\* them is among those it tests, and from_dict reads a missing controlFlags
\* as 0.
Lacking(frame, keys) ==
  [frame EXCEPT !.lacks = keys,
                !.decodable = @ /\ keys \cap required = {},
                !.control_flags = IF "controlFlags" \in keys THEN 0 ELSE @]

\* What the peer can stamp on a frame for session sid: any seq, and an ack
\* of something the session has sent.
Stamps(sid) == (0..MaxInSeq) \X (0..session[sid].seq)

Undecodable == Frame(0, 0, 0, 0, "raw", TRUE, FALSE)

HeartbeatFrames(sid) ==
  {Frame(x[1], x[2], AckBit, "heartbeat", "ACK", TRUE, TRUE) : x \in Stamps(sid)}

\* Frames of the session layer: heartbeats, messages, garbage.
SessionFrames(sid) ==
  {Undecodable} \cup HeartbeatFrames(sid)
    \cup {Frame(x[1], x[2], 0, 0, "ok", TRUE, TRUE) : x \in Stamps(sid)}
    \cup {Lacking(Frame(x[1], x[2], 0, 0, "ok", TRUE, TRUE), {k}) :
            x \in Stamps(sid), k \in {"controlFlags", "payload"}}

\* The flags and payloads a server puts on the messages of a stream.
StreamMessages ==
  {<<0, "ok">>, <<0, "err">>, <<StreamClosedBit, "CLOSE">>, <<StreamClosedBit, "ok">>,
   <<StreamCancelBit, CANCEL_CODE>>, <<StreamCancelBit, "raw">>}

\* Frames of the client dispatch: in-order messages for the streams.
InOrder(sid) == {x \in Stamps(sid) : x[1] = session[sid].ack /\ x[2] = session[sid].seq}

StreamFrames(sid) ==
  {Frame(x[1], x[2], m[1], i, m[2], TRUE, TRUE) :
     x \in InOrder(sid), m \in StreamMessages, i \in StreamIds}
  \cup {Frame(x[1], x[2], 0, i, "ok", FALSE, TRUE) : x \in InOrder(sid), i \in StreamIds}

\* ---------------------------------- a Readable and a Writable, in use
\* A step of the Readable taken on its own.
ReadableStep(r) ==
  /\ Len(r.pushed) <= MaxPush
  /\ Len(r.outcomes) <= MaxReads
  /\ r.usage_errors <= MaxRefused
  /\ readable' = r
  /\ UNCHANGED <<status, sessions, session, retry_budget, tasks, connect_tasks,
                 listen_tasks, ready, wire, ws_closed, streams, log, recording, writable,
                 emitted, call, reconnect_on_connection_drop,
                 dispatcher, readers>>

\* Any holder of the Readable: break_, collect and __aiter__ can be called
\* at any moment, also while a read is pending.
Break == ReadableStep(break_(readable))

Collect == ReadableStep(collect(readable))

Aiter == ReadableStep(aiter(readable))

\* The single consumer: one read at a time.
ReadNext ==
  /\ readable.pending = "idle"
  /\ ReadableStep(Readable_next(readable))

Anext ==
  /\ readable.pending = "idle"
  /\ readable.iterator \in {"live", "done"}
  /\ ReadableStep(anext(readable))

\* The consumer leaves its `async for` and the iterator is collected.
IteratorDel ==
  /\ readable.pending # "anext"
  /\ readable.iterator \in {"live", "done"}
  /\ ReadableStep(iterator_del(readable))

\* The loop runs the read that a push, a close or a break has woken.
Resume ==
  /\ readable.pending # "idle"
  /\ readable.broken \/ readable.queue # <<>> \/ readable.closed
  /\ ReadableStep(resume(readable))

\* A step of the Writable taken on its own.
WritableStep(w) ==
  /\ w.close_calls + w.write_cb + w.errors <= MaxCalls
  /\ writable' = w
  /\ UNCHANGED <<status, sessions, session, retry_budget, tasks, connect_tasks,
                 listen_tasks, ready, wire, ws_closed, streams, log, recording, readable,
                 emitted, call, reconnect_on_connection_drop,
                 dispatcher, readers>>

\* ------------------------------------------------------ EventDispatcher
\* The handlers of one event: _handlers[event] is a set.  order is history:
\* the registered handlers in the order of their registration.  Of the
\* dispatch last started: the copy list(self._handlers[event]) it iterates
\* over, the registration order when it started, and the handlers called.
Handlers == 1..MaxHandlers

NewDispatcher ==
  [handlers |-> {}, order |-> <<>>, snapshot |-> <<>>, at_start |-> <<>>, called |-> <<>>]

add_listener(d, h) ==
  [d EXCEPT !.handlers = @ \cup {h},
            !.order = IF h \in d.handlers THEN @ ELSE Append(@, h)]

remove_listener(d, h) ==
  [d EXCEPT !.handlers = @ \ {h},
            !.order = SelectSeq(@, LAMBDA g : g # h)]

\* list(a_set): the elements in the order of iteration of the set, which
\* follows the hashes of the callables and not their insertion.
list(d) ==
  {q \in [1..Cardinality(d.handlers) -> d.handlers] :
     \A j, k \in 1..Cardinality(d.handlers) : j # k => q[j] # q[k]}

Dispatching == Len(dispatcher.called) < Len(dispatcher.snapshot)

DispatcherStep(d) ==
  /\ dispatcher' = d
  /\ UNCHANGED <<status, sessions, session, retry_budget, tasks, connect_tasks,
                 listen_tasks, ready, wire, ws_closed, streams, log, recording, readable,
                 writable, emitted, call, reconnect_on_connection_drop, readers>>

\* add_listener and remove_listener called between dispatches.
AddListener(h) == ~Dispatching /\ DispatcherStep(add_listener(dispatcher, h))

RemoveListener(h) == ~Dispatching /\ DispatcherStep(remove_listener(dispatcher, h))

\* dispatch up to its first call: the copy is taken.
Dispatch ==
  /\ ~Dispatching
  /\ \E q \in list(dispatcher) :
       DispatcherStep([dispatcher EXCEPT !.snapshot = q, !.at_start = dispatcher.order,
                                         !.called = <<>>])

\* dispatch calls the next handler of its copy; the handler returns, or
\* adds or removes a listener of the event and returns.
HandlerCalled ==
  /\ Dispatching
  /\ LET d == [dispatcher EXCEPT !.called = Append(@, dispatcher.snapshot[Len(@) + 1])]
     IN \/ DispatcherStep(d)
        \/ \E h \in Handlers : DispatcherStep(add_listener(d, h))
        \/ \E h \in Handlers : DispatcherStep(remove_listener(d, h))

\* ---------------------------------------------------------------- codec
\* A python value, and a value on the wire, is a node: its type t, its
\* text s (the digits of an integer, the characters of a string, the
\* octets of a byte string in hex), the key k it has in the map that
\* holds it, and its items in order.
Node(t, s, k, items) == [t |-> t, s |-> s, k |-> k, items |-> items]

Under(k, n) == [n EXCEPT !.k = k]

None == Node("none", "", "", <<>>)

Raise(why) == Node("raise", why, "", <<>>)

Raises(items) == \E i \in DOMAIN items : items[i].t = "raise"

FirstRaised(items) ==
  items[CHOOSE i \in DOMAIN items :
          /\ items[i].t = "raise"
          /\ \A j \in DOMAIN items : j < i => items[j].t # "raise"]

\* base64 over the byte strings and the texts of the payloads below.
b64encode(s) == IF s = "0001" THEN "AAE=" ELSE ""

\* base64.b64decode: a text of the alphabet with its padding decodes, any
\* other text raises; of a byte string the octets outside the alphabet are
\* discarded; no other type is accepted.
b64decode(x) ==
  CASE x.t = "str" /\ x.s = "AAE=" -> Node("bytes", "0001", "", <<>>)
    [] x.t = "str" /\ x.s = ""     -> Node("bytes", "", "", <<>>)
    [] x.t = "str"                 -> Raise("binascii.Error")
    [] x.t = "bytes"               -> Node("bytes", "", "", <<>>)
    [] OTHER                       -> Raise("TypeError")

IsDigits(s) == s \in {"0", "4", "7", "12"}

\* int(x)
int(x) ==
  CASE x.t = "int"                  -> Node("int", x.s, "", <<>>)
    [] x.t = "str" /\ IsDigits(x.s) -> Node("int", x.s, "", <<>>)
    [] x.t \in {"str", "bytes"}     -> Raise("ValueError")
    [] OTHER                        -> Raise("TypeError")

\* _CustomEncoder.default
CustomEncoder_default(o) ==
  Node("map", "", "", <<Node("str", b64encode(o.s), "$t", <<>>)>>)

\* _custom_object_hook
custom_object_hook(obj) ==
  IF Len(obj.items) = 1 /\ obj.items[1].k = "$t" THEN b64decode(obj.items[1])
  ELSE IF Len(obj.items) = 1 /\ obj.items[1].k = "$b" THEN int(obj.items[1])
  ELSE obj

\* NaiveJsonCodec.to_buffer: json.dumps with the custom encoder.
RECURSIVE json_dumps(_)
json_dumps(o) ==
  CASE o.t = "int"   -> Node("number", o.s, o.k, <<>>)
    [] o.t = "str"   -> Node("string", o.s, o.k, <<>>)
    [] o.t = "list"  -> Node("array", "", o.k, [i \in DOMAIN o.items |-> json_dumps(o.items[i])])
    [] o.t = "map"   -> Node("object", "", o.k, [i \in DOMAIN o.items |-> json_dumps(o.items[i])])
    [] o.t = "bytes" -> Under(o.k, json_dumps(CustomEncoder_default(o)))

\* NaiveJsonCodec.from_buffer: json.loads, the hook applied to each object
\* once its members are decoded.
RECURSIVE json_loads(_)
json_loads(n) ==
  LET items == [i \in DOMAIN n.items |-> json_loads(n.items[i])]
  IN CASE n.t = "number" -> Node("int", n.s, n.k, <<>>)
       [] n.t = "string" -> Node("str", n.s, n.k, <<>>)
       [] n.t = "array"  -> IF Raises(items) THEN FirstRaised(items)
                            ELSE Node("list", "", n.k, items)
       [] n.t = "object" -> IF Raises(items) THEN FirstRaised(items)
                            ELSE LET obj == custom_object_hook(Node("map", "", n.k, items))
                                 IN IF obj.t = "raise" THEN obj ELSE Under(n.k, obj)
       [] OTHER          -> Raise("JSONDecodeError")

\* BinaryCodec.to_buffer: msgpack.packb(use_bin_type=True)
RECURSIVE packb(_)
packb(o) ==
  CASE o.t = "int"   -> Node("mp_int", o.s, o.k, <<>>)
    [] o.t = "str"   -> Node("mp_str", o.s, o.k, <<>>)
    [] o.t = "bytes" -> Node("mp_bin", o.s, o.k, <<>>)
    [] o.t = "list"  -> Node("mp_array", "", o.k, [i \in DOMAIN o.items |-> packb(o.items[i])])
    [] o.t = "map"   -> Node("mp_map", "", o.k, [i \in DOMAIN o.items |-> packb(o.items[i])])

\* BinaryCodec.from_buffer: msgpack.unpackb(raw=False)
RECURSIVE unpackb(_)
unpackb(n) ==
  LET items == [i \in DOMAIN n.items |-> unpackb(n.items[i])]
  IN CASE n.t = "mp_int"   -> Node("int", n.s, n.k, <<>>)
       [] n.t = "mp_str"   -> Node("str", n.s, n.k, <<>>)
       [] n.t = "mp_bin"   -> Node("bytes", n.s, n.k, <<>>)
       [] n.t = "mp_array" -> IF Raises(items) THEN FirstRaised(items)
                              ELSE Node("list", "", n.k, items)
       [] n.t = "mp_map"   -> IF Raises(items) THEN FirstRaised(items)
                              ELSE Node("map", "", n.k, items)
       [] OTHER            -> Raise("UnpackException")

Codecs == {"naive", "binary"}

Codec_to_buffer(codec, obj) == IF codec = "naive" THEN json_dumps(obj) ELSE packb(obj)

Codec_from_buffer(codec, buf) == IF codec = "naive" THEN json_loads(buf) ELSE unpackb(buf)

\* TransportMessage, each field a python value.
TransportMessage(id, from_, to, seq, ack, payload, stream_id, control_flags, service_name,
                 procedure_name, tracing) ==
  [id |-> id, from_ |-> from_, to |-> to, seq |-> seq, ack |-> ack, payload |-> payload,
   stream_id |-> stream_id, control_flags |-> control_flags, service_name |-> service_name,
   procedure_name |-> procedure_name, tracing |-> tracing]

NoMessage == TransportMessage(None, None, None, None, None, None, None, None, None, None, None)

Present(items) == SelectSeq(items, LAMBDA n : n.t # "none")

\* TransportMessage.to_dict
to_dict(m) ==
  Node("map", "", "",
       <<Under("id", m.id), Under("from", m.from_), Under("to", m.to), Under("seq", m.seq),
         Under("ack", m.ack), Under("payload", m.payload), Under("streamId", m.stream_id),
         Under("controlFlags", m.control_flags)>>
       \o Present(<<Under("serviceName", m.service_name),
                    Under("procedureName", m.procedure_name),
                    Under("tracing", m.tracing)>>))

HasKey(d, k) == \E i \in DOMAIN d.items : d.items[i].k = k

\* d[k], and d.get(k, default)
Get(d, k, default) ==
  IF HasKey(d, k) THEN Under("", d.items[CHOOSE i \in DOMAIN d.items : d.items[i].k = k])
  ELSE default

\* TransportMessage.from_dict
from_dict(d) ==
  TransportMessage(Get(d, "id", None), Get(d, "from", None), Get(d, "to", None),
                   Get(d, "seq", None), Get(d, "ack", None), Get(d, "payload", None),
                   Get(d, "streamId", None),
                   Get(d, "controlFlags", Node("int", "0", "", <<>>)),
                   Get(d, "serviceName", None), Get(d, "procedureName", None),
                   Get(d, "tracing", None))

\* CodecMessageAdapter.to_buffer
adapter_to_buffer(codec, m) == Codec_to_buffer(codec, to_dict(m))

Failure == [ok |-> FALSE, msg |-> NoMessage]

\* CodecMessageAdapter.from_buffer
adapter_from_buffer(codec, buf) ==
  LET raw == Codec_from_buffer(codec, buf)
  IN IF raw.t = "raise" THEN Failure
     ELSE IF raw.t # "map" THEN Failure
     ELSE IF \E k \in required : ~HasKey(raw, k) THEN Failure
     ELSE [ok |-> TRUE, msg |-> from_dict(raw)]

\* The payloads: integers, strings, a byte string, and the lists and maps
\* built of them down to MaxDepth levels.
Scalars ==
  {Node("int", "7", "", <<>>), Node("int", "12", "", <<>>), Node("str", "a", "", <<>>),
   Node("str", "AAE=", "", <<>>), Node("str", "12", "", <<>>), Node("bytes", "0001", "", <<>>)}

MapKeys == {"a", "$t", "$b"}

RECURSIVE ValuesOfDepth(_)
ValuesOfDepth(d) ==
  IF d = 0 THEN Scalars
  ELSE LET inner == ValuesOfDepth(d - 1)
       IN inner \cup {Node("list", "", "", <<>>), Node("map", "", "", <<>>)}
                \cup {Node("list", "", "", <<v>>) : v \in inner}
                \cup {Node("map", "", "", <<Under(k, v)>>) : k \in MapKeys, v \in inner}
                \cup {Node("map", "", "", <<Under("$t", v), Under("a", v)>>) : v \in Scalars}

AMessage(payload, service_name) ==
  TransportMessage(Node("str", "id1", "", <<>>), Node("str", "client", "", <<>>),
                   Node("str", "SERVER", "", <<>>), Node("int", "7", "", <<>>),
                   Node("int", "12", "", <<>>), payload, Node("str", "s1", "", <<>>),
                   Node("int", "4", "", <<>>), service_name, service_name, None)

Messages ==
  {AMessage(p, sn) : p \in ValuesOfDepth(MaxDepth), sn \in {None, Node("str", "svc", "", <<>>)}}

\* What a peer can send: bytes no codec decodes, a value that is no map,
\* and a map with any of the keys of a message.
Keeping(d, keys) == [d EXCEPT !.items = SelectSeq(d.items, LAMBDA n : n.k \in keys)]

AllKeys == required_with_control_flags \cup {"serviceName", "procedureName"}

Garbage == Node("garbage", "", "", <<>>)

FramesOf(codec) ==
  {Garbage, Codec_to_buffer(codec, Node("list", "", "", <<>>))}
    \cup {Codec_to_buffer(codec,
                          Keeping(to_dict(AMessage(Node("str", "a", "", <<>>),
                                                   Node("str", "svc", "", <<>>))), keys)) :
            keys \in {ks \in SUBSET AllKeys : Cardinality(AllKeys \ ks) <= MaxMissing}}

NoCall == [step |-> "none", codec |-> "naive", msg |-> NoMessage, buf |-> None, out |-> Failure]

\* adapter.to_buffer(msg) of a message the client built.
AdapterToBuffer ==
  /\ call.step = "message"
  /\ call' = [call EXCEPT !.step = "sent", !.buf = adapter_to_buffer(call.codec, call.msg)]
  /\ UNCHANGED <<status, sessions, session, retry_budget, tasks, connect_tasks,
                 listen_tasks, ready, wire, ws_closed, streams, log, recording, readable,
                 writable, emitted, reconnect_on_connection_drop,
                 dispatcher, readers>>

\* adapter.from_buffer(raw) of what the peer received, or sent.
AdapterFromBuffer ==
  /\ call.step \in {"sent", "frame"}
  /\ call' = [call EXCEPT !.step = IF call.step = "sent" THEN "returned" ELSE "received",
                          !.out = adapter_from_buffer(call.codec, call.buf)]
  /\ UNCHANGED <<status, sessions, session, retry_budget, tasks, connect_tasks,
                 listen_tasks, ready, wire, ws_closed, streams, log, recording, readable,
                 writable, emitted, reconnect_on_connection_drop,
                 dispatcher, readers>>

\* ------------------------------------------------------- specification
Constructed ==
  /\ status = "open"
  /\ sessions = [to \in Peers |-> NoSession]
  /\ session = [i \in SessionIds |-> NewSession]
  /\ retry_budget = [budget_consumed |-> 0, restore_task |-> FALSE]
  /\ tasks = [t \in TaskIds |-> NoTaskYet]
  /\ connect_tasks = [to \in Peers |-> NoTask]
  /\ listen_tasks = {}
  /\ ready = <<>>
  /\ wire = [t \in TaskIds |-> <<>>]
  /\ ws_closed = {}
  /\ streams = [i \in StreamIds |-> NewStream]
  /\ log = [i \in SessionIds |-> NewLog]
  /\ readable = NewReadable
  /\ writable = NewWritable
  /\ emitted = <<>>
  /\ reconnect_on_connection_drop = TRUE
  /\ dispatcher = NewDispatcher
  /\ readers = NewReaders

Init == Constructed /\ recording = {"log", "wire"} /\ call = NoCall

InitClient == Constructed /\ recording = {} /\ call = NoCall

InitStream == Constructed /\ recording = {"log"} /\ call = NoCall

\* The steps every specification has: the ready queue, connect, the
\* connect task, the end of a read loop.
TransportNext ==
  \/ RunReady
  \/ Connect(SERVER)
  \/ \E t \in TaskIds : BackoffElapsed(t)
  \/ \E t \in TaskIds : ConnectionOpened(t)
  \/ \E l \in listen_tasks : ListenEnd(l)

\* The session layer: one peer that keeps the session, connections that
\* fail, drop and are replaced, frames of any seq read by the listeners of
\* the current and of the replaced connections, and a caller of the
\* session-bound send closures.
Next ==
  \/ TransportNext
  \/ \E t \in TaskIds : TaskRaised(t)
  \/ \E t \in TaskIds, resp \in {"ok", "fatal", "invalid"} : HandshakeResponse(t, resp)
  \/ \E sid \in SessionIds : HeartbeatMiss(sid)
  \/ \E l \in listen_tasks : \E frame \in SessionFrames(l.sid) : ListenFrame(l, frame)
  \/ \E sid \in SessionIds, ser \in BOOLEAN : BoundSend(sid, ser)

Spec == Init /\ [][Next]_vars

\* The same session layer, with the frames out of order recorded.
InitFrames == Constructed /\ recording = {"log", "wire", "order"} /\ call = NoCall

SpecFrames == InitFrames /\ [][Next]_vars

\* The same session layer under a caller that also turns the reconnection
\* after a drop off and on.
DropNext ==
  \/ Next
  \/ \E value \in BOOLEAN : SetReconnectOnConnectionDrop(value)

SpecDrop == Init /\ [][DropNext]_vars

\* The life of sessions: every way a session is deleted and replaced, under
\* a caller of the session-bound send closures.
ScopeNext ==
  \/ TransportNext
  \/ \E t \in TaskIds, resp \in HandshakeResponses : HandshakeResponse(t, resp)
  \/ \E sid \in SessionIds : GraceElapsed(sid)
  \/ RestoreBudget
  \/ Close
  \/ \E sid \in SessionIds : BoundSend(sid, TRUE)

SpecScope == Init /\ [][ScopeNext]_vars

\* The same life of sessions, with the events of each handler recorded.
InitEvents == Constructed /\ recording = {"events", "wire"} /\ call = NoCall

SpecEvents == InitEvents /\ [][ScopeNext]_vars

\* The application's use of a stream, the messages of the server for it in
\* seq order, and every way its session is deleted.
InvokeOnce(proc_type, ser, with_abort) ==
  /\ NextStream = 1
  /\ Invoke(proc_type, ser, with_abort)

LifeNext ==
  \/ TransportNext
  \/ \E t \in TaskIds, resp \in {"ok", "other_session_id", "SESSION_STATE_MISMATCH"} :
       HandshakeResponse(t, resp)
  \/ \E sid \in SessionIds : GraceElapsed(sid)
  \/ Close
  \/ \E i \in StreamIds : Abort(i)

\* One stream from its invocation to its teardown.
StreamNext ==
  \/ LifeNext
  \/ \E l \in listen_tasks : \E frame \in StreamFrames(l.sid) : ListenFrame(l, frame)
  \/ \E p \in ProcTypes, ser \in BOOLEAN, a \in BOOLEAN : InvokeOnce(p, ser, a)
  \/ \E i \in StreamIds, ser \in BOOLEAN : Write(i, ser)
  \/ \E i \in StreamIds, v \in BOOLEAN : CloseWritable(i, v)
  \/ \E i \in StreamIds : Read(i)

SpecStream == InitStream /\ [][StreamNext]_vars

\* Several streams over sessions that are deleted and replaced.
ClientNext ==
  \/ LifeNext
  \/ \E p \in ProcTypes, a \in BOOLEAN : Invoke(p, TRUE, a)
  \/ \E i \in StreamIds : CloseWritable(i, FALSE)

SpecClient == InitClient /\ [][ClientNext]_vars

\* Several streams open at once on one session that connects, drops and
\* reconnects, with the messages of the server for any of them in seq
\* order, and the application reading, closing and aborting.
ConcurrentNext ==
  \/ TransportNext
  \/ \E t \in TaskIds : HandshakeResponse(t, "ok")
  \/ \E l \in listen_tasks : \E frame \in StreamFrames(l.sid) : ListenFrame(l, frame)
  \/ \E p \in ProcTypes, a \in BOOLEAN : Invoke(p, TRUE, a)
  \/ \E i \in StreamIds : Abort(i)
  \/ \E i \in StreamIds : CloseWritable(i, FALSE)
  \/ \E i \in StreamIds : Read(i)

SpecConcurrent == InitClient /\ [][ConcurrentNext]_vars

\* A transport whose first connection was established and then lost: the
\* peer's session is back in NoConnection with its grace timer running,
\* the budget of the first attempt is consumed and being restored, and the
\* reconnect that _on_connection_dropped asked for waits in the ready
\* queue.  The attempt that made the lost connection has finished and is
\* not counted among the attempts.
InitDropped ==
  /\ status = "open"
  /\ sessions = [to \in Peers |-> 1]
  /\ session = [i \in SessionIds |->
       IF i = 1
       THEN set_disconnected([NewSession EXCEPT !.created = TRUE, !.state = "Connected",
                                                !.on_connection_closed = TRUE])
       ELSE NewSession]
  /\ retry_budget = start_restoring_budget(consume_budget([budget_consumed |-> 0,
                                                          restore_task |-> FALSE]))
  /\ tasks = [t \in TaskIds |-> NoTaskYet]
  /\ connect_tasks = [to \in Peers |-> NoTask]
  /\ listen_tasks = {}
  /\ ready = <<[type |-> "connect", to |-> SERVER]>>
  /\ wire = [t \in TaskIds |-> <<>>]
  /\ ws_closed = {}
  /\ streams = [i \in StreamIds |-> NewStream]
  /\ log = [i \in SessionIds |-> NewLog]
  /\ readable = NewReadable
  /\ writable = NewWritable
  /\ emitted = <<>>
  /\ recording = {"events"}
  /\ call = NoCall
  /\ reconnect_on_connection_drop = TRUE
  /\ dispatcher = NewDispatcher
  /\ readers = NewReaders

\* The client on that transport.
SpecDropped == InitDropped /\ [][ClientNext]_vars

\* A transport whose first MaxFailed attempts to connect have all failed
\* before a connection was made: the peer's session is in NoConnection and
\* was never connected, each attempt has consumed a unit of the budget and
\* nothing restores it, and the reconnect that _on_connection_failed asked
\* for waits in the ready queue.  The failed attempts have finished and are
\* not counted among the attempts.
InitBudget ==
  /\ status = "open"
  /\ sessions = [to \in Peers |-> 1]
  /\ session = [i \in SessionIds |->
       IF i = 1 THEN [NewSession EXCEPT !.created = TRUE] ELSE NewSession]
  /\ retry_budget = [budget_consumed |-> MaxFailed, restore_task |-> FALSE]
  /\ tasks = [t \in TaskIds |-> NoTaskYet]
  /\ connect_tasks = [to \in Peers |-> NoTask]
  /\ listen_tasks = {}
  /\ ready = <<[type |-> "connect", to |-> SERVER]>>
  /\ wire = [t \in TaskIds |-> <<>>]
  /\ ws_closed = {}
  /\ streams = [i \in StreamIds |-> NewStream]
  /\ log = [i \in SessionIds |-> NewLog]
  /\ readable = NewReadable
  /\ writable = NewWritable
  /\ emitted = <<>>
  /\ recording = {"events"}
  /\ call = NoCall
  /\ reconnect_on_connection_drop = TRUE
  /\ dispatcher = NewDispatcher
  /\ readers = NewReaders

\* The life of sessions on that transport, with attempts that fail.
BudgetNext ==
  \/ ScopeNext
  \/ \E t \in TaskIds : TaskRaised(t)

SpecBudget == InitBudget /\ [][BudgetNext]_vars

\* The transport after a lost connection, under every handshake response,
\* attempts that fail, the grace timer and close: the session is deleted
\* and replaced while attempts started for it are still in flight.
SpecReplaced == InitDropped /\ [][BudgetNext]_vars

\* The transport short of budget, facing a server that cannot be reached:
\* every attempt fails, when the connection is opened, when the handshake
\* is sent, or at the response; the application invokes procedures.  The session
\* was never connected, so neither a grace timer nor a heartbeat timer nor
\* the restoring of the budget is running, and none of them has a step.
UnreachableNext ==
  \/ RunReady
  \/ \E t \in TaskIds : BackoffElapsed(t)
  \/ \E t \in TaskIds : ConnectionOpened(t)
  \/ \E t \in TaskIds : TaskRaised(t)
  \/ \E t \in TaskIds, resp \in {"invalid", "fatal"} : HandshakeResponse(t, resp)
  \/ \E p \in ProcTypes, ser \in BOOLEAN : Invoke(p, ser, FALSE)

\* The loop runs what is ready, every sleep ends, and every await of the
\* network ends, in a failure.
UnreachableFairness ==
  /\ WF_vars(RunReady)
  /\ \A t \in TaskIds : WF_vars(BackoffElapsed(t))
  /\ \A t \in TaskIds :
       WF_vars(\/ ConnectionOpened(t)
               \/ TaskRaised(t)
               \/ \E resp \in {"invalid", "fatal"} : HandshakeResponse(t, resp))

SpecUnreachable == InitBudget /\ [][UnreachableNext]_vars /\ UnreachableFairness

\* A Readable with its producer and its consumer, and a Writable with
\* its caller, each taken on its own.
InitObjects == Constructed /\ recording = {} /\ call = NoCall

ObjectsNext ==
  \/ \E v \in Values : ReadableStep(Readable_push_value(readable, v))
  \/ ReadableStep(trigger_close(readable))
  \/ Break
  \/ Collect
  \/ Aiter
  \/ ReadNext
  \/ Anext
  \/ IteratorDel
  \/ Resume
  \/ WritableStep(Writable_write(writable, TRUE))
  \/ \E value \in BOOLEAN : WritableStep(Writable_close(writable, value))

SpecObjects == InitObjects /\ [][ObjectsNext]_vars

\* A LeakyBucketRateLimit taken on its own: its budget consumed and
\* restored, and its backoff asked for at any moment.
\* random.random() * max_jitter_ms lies in [0, max_jitter_ms): its ends and
\* every JitterGrid-th millisecond between them.
Jitters == {j \in 0..(max_jitter_ms - 1) : j % JitterGrid = 0} \cup {max_jitter_ms - 1}

GetBackoffMs ==
  /\ \E jitter \in Jitters :
       call' = [step |-> "get_backoff_ms", consumed |-> retry_budget.budget_consumed,
                ms |-> get_backoff_ms(retry_budget, jitter)]
  /\ UNCHANGED <<status, sessions, session, retry_budget, tasks, connect_tasks,
                 listen_tasks, ready, wire, ws_closed, streams, log, recording, readable,
                 writable, emitted, reconnect_on_connection_drop,
                 dispatcher, readers>>

ConsumeBudget ==
  /\ retry_budget.budget_consumed < MaxConsumed
  /\ Commit([Cur EXCEPT !.retry_budget = consume_budget(@)])

StartRestoringBudget ==
  /\ ~retry_budget.restore_task
  /\ Commit([Cur EXCEPT !.retry_budget = start_restoring_budget(@)])

InitBackoff == Constructed /\ recording = {} /\ call = NoCall

BackoffNext == GetBackoffMs \/ ConsumeBudget \/ StartRestoringBudget \/ RestoreBudget

SpecBackoff == InitBackoff /\ [][BackoffNext]_vars

\* An EventDispatcher taken on its own: listeners come and go, also from
\* inside the handlers a dispatch calls.
InitDispatcher == Constructed /\ recording = {} /\ call = NoCall

DispatcherNext ==
  \/ \E h \in Handlers : AddListener(h)
  \/ \E h \in Handlers : RemoveListener(h)
  \/ Dispatch
  \/ HandlerCalled

SpecDispatcher == InitDispatcher /\ [][DispatcherNext]_vars

\* A Readable whose producer pushes and closes while several next() calls
\* are made on it, as tasks or awaited directly.
InitReaders == Constructed /\ recording = {} /\ call = NoCall

ReadersNext ==
  \/ EnsureFuture
  \/ AwaitNext
  \/ RunReader
  \/ \E v \in Values : PushValue(v)
  \/ TriggerClose

SpecReaders == InitReaders /\ [][ReadersNext]_vars

\* The message adapter with each of the two codecs: a message the client
\* encodes and decodes again, or a frame it receives.
InitCodec ==
  /\ Constructed
  /\ recording = {}
  /\ \E codec \in Codecs :
       \/ \E m \in Messages : call = [NoCall EXCEPT !.step = "message", !.codec = codec, !.msg = m]
       \/ \E buf \in FramesOf(codec) :
            call = [NoCall EXCEPT !.step = "frame", !.codec = codec, !.buf = buf]

CodecNext == AdapterToBuffer \/ AdapterFromBuffer

SpecCodec == InitCodec /\ [][CodecNext]_vars

\* ---------------------------------------------------------------- claims
SeqOf(entries) == [k \in 1..Len(entries) |-> entries[k].seq]

Live(sid) == session[sid].created /\ ~session[sid].destroyed

MaxOf(S) == CHOOSE x \in S : \A y \in S : y <= x

\* C1: the frames a session accepts carry the seqs 0, 1, 2, ... in that
\* order, each accepted at the moment its seq equals the session's ack (so
\* never a seq above ack and never a seq twice), and the `message` events
\* are exactly the accepted frames without the Ack bit, once each, in seq
\* order.
C1_AcceptedInOrder ==
  \A sid \in SessionIds :
    /\ \A k \in 1..Len(log[sid].accepted) : log[sid].accepted[k].seq = k - 1
    /\ log[sid].dispatched = SeqOf(SelectSeq(log[sid].accepted, LAMBDA e : ~e.hb))

C1_AcceptedAtAck ==
  \A sid \in SessionIds :
    log'[sid].accepted # log[sid].accepted =>
      /\ Len(log'[sid].accepted) = Len(log[sid].accepted) + 1
      /\ SubSeq(log'[sid].accepted, 1, Len(log[sid].accepted)) = log[sid].accepted
      /\ log'[sid].accepted[Len(log'[sid].accepted)].seq = session[sid].ack

C1_InOrderDelivery == [](C1_AcceptedInOrder) /\ [][C1_AcceptedAtAck]_vars

\* C1 witness: a session accepted frames 0 and 1, dispatched one of them,
\* while the listeners of two connections were reading for it.
C1_Witness ==
  \E sid \in SessionIds :
    /\ Len(log[sid].accepted) = 2
    /\ Len(log[sid].dispatched) >= 1
    /\ Cardinality({l \in listen_tasks : l.sid = sid}) = 2

\* C2: on every session that is not destroyed, ack is one more than the
\* highest seq accepted from the peer (0 when nothing was accepted), and the
\* send buffer is a suffix of the envelopes the session constructed: their
\* seqs are consecutive and end at seq - 1, and they are exactly the
\* constructed envelopes whose seq is at least the highest ack the peer sent.
C2_Bookkeeping ==
  \A sid \in SessionIds :
    Live(sid) =>
      LET s   == session[sid]
          l   == log[sid]
          buf == s.send_buffer
      IN /\ s.ack = IF l.accepted = <<>> THEN 0
                    ELSE MaxOf({l.accepted[k].seq : k \in 1..Len(l.accepted)}) + 1
         /\ Len(l.sent) = s.seq
         /\ \A k \in 1..Len(l.sent) : l.sent[k].seq = k - 1
         /\ buf = SubSeq(l.sent, Len(l.sent) - Len(buf) + 1, Len(l.sent))
         /\ \A k \in 1..Len(buf) : buf[k].seq = s.seq - Len(buf) + k - 1
         /\ buf = SelectSeq(l.sent, LAMBDA m : m.seq >= l.peer_ack)

\* C2 witness: a live session constructed two envelopes, the peer
\* acknowledged the first, one envelope is left in the buffer, and a frame
\* was accepted.
C2_Witness ==
  \E sid \in SessionIds :
    /\ Live(sid)
    /\ session[sid].seq = 2
    /\ log[sid].peer_ack = 1
    /\ Len(session[sid].send_buffer) = 1
    /\ session[sid].ack = 2

\* The seqs of the _do_ws_send callbacks of session sid waiting in the
\* ready queue, in the order they will run.
WriteSeqs(q, sid) == SeqOf(SelectSeq(q, LAMBDA h : h.type = "write" /\ h.sid = sid))

Ascending(q) == \A k \in 1..(Len(q) - 1) : q[k] < q[k + 1]

Range(q) == {q[k] : k \in 1..Len(q)}

AllSerialize(buf) == \A k \in 1..Len(buf) : buf[k].ser

C3_BufferedOnly ==
  \A sid \in SessionIds :
    (/\ session'[sid].seq > session[sid].seq
     /\ ~(session[sid].state = "Connected" /\ session[sid].ws # NoWs)) =>
      /\ wire' = wire
      /\ WriteSeqs(ready', sid) = WriteSeqs(ready, sid)
      /\ session'[sid].send_buffer # <<>>
      /\ session'[sid].send_buffer[Len(session'[sid].send_buffer)].seq = session[sid].seq

\* C3, second part: a successful handshake response on a live session
\* whose buffered envelopes all serialize connects it; one with an envelope
\* that does not serialize deletes the session and schedules nothing more.
C3_AtHandshake ==
  \A t \in TaskIds :
    (HandshakeResponse(t, "ok") /\ Live(tasks[t].sid)) =>
      LET sid == tasks[t].sid
      IN IF AllSerialize(session[sid].send_buffer)
         THEN /\ ~session'[sid].destroyed
              /\ session'[sid].state = "Connected"
              /\ session'[sid].ws = t
              /\ wire[t] = <<>>
         ELSE /\ session'[sid].destroyed
              /\ sessions'[tasks[t].to] = NoSession
              /\ wire' = wire

\* C3, third part: while a session is connected, what was written to its
\* connection followed by what waits to be written is in ascending seq
\* order and holds every buffered envelope that serializes; a destroyed
\* session writes nothing.
C3_Retransmitted ==
  \A sid \in SessionIds :
    LET s == session[sid]
    IN (s.created /\ ~s.destroyed /\ s.state = "Connected" /\ s.ws # NoWs) =>
         LET out == wire[s.ws] \o WriteSeqs(ready, sid)
         IN /\ Ascending(out)
            /\ \A k \in 1..Len(s.send_buffer) :
                 s.send_buffer[k].ser => s.send_buffer[k].seq \in Range(out)

C4_StaleSendRefused ==
  [][\A sid \in SessionIds :
       (/\ BoundSend(sid, TRUE)
        /\ (sessions[SERVER] # sid \/ session[sid].destroyed)) =>
         /\ session_bound_send(Cur, SERVER, sid, Partial("data", 0, 0, FALSE, TRUE)).raised
         /\ session' = session
         /\ ready' = ready
         /\ wire' = wire]_vars

\* C4 witness: the closure of a destroyed session raised while another
\* session was the peer's current one.
C4_Witness ==
  \E sid \in SessionIds :
    /\ log[sid].refused
    /\ session[sid].destroyed
    /\ sessions[SERVER] \notin {NoSession, sid}

\* The result _handle_proc returns on a closed transport.
DisconnectedResult(st) ==
  /\ st.pushed = <<UNEXPECTED_DISCONNECT_CODE>>
  /\ st.r_closed
  /\ st.w_closed
  /\ ~st.registered
  /\ st.abort = "none"
  /\ st.session_id = NoSession

\* C5: an invocation of any of the four shapes on a closed transport
\* returns a readable holding exactly one UNEXPECTED_DISCONNECT error and
\* already closed, and a writable already closed; it creates no session and
\* no connection attempt, registers no listener, starts no abort watcher
\* and constructs no envelope; and nothing later changes that result but
\* the consumer reading it.
C5_InvokeOnClosed ==
  \A p \in ProcTypes, a \in BOOLEAN :
    (Invoke(p, TRUE, a) /\ status # "open") =>
      /\ DisconnectedResult(streams'[NextStream])
      /\ streams'[NextStream].proc_type = p
      /\ streams'[NextStream].nread = 0
      /\ \A j \in StreamIds \ {NextStream} : streams'[j] = streams[j]
      /\ UNCHANGED <<status, sessions, session, tasks, connect_tasks, listen_tasks,
                     ready, retry_budget, readable, writable>>

C5_ResultStays ==
  \A i \in StreamIds :
    (streams[i].used /\ streams[i].session_id = NoSession) => DisconnectedResult(streams[i])

C5_ClosedTransportInvoke == []C5_ResultStays /\ [][C5_InvokeOnClosed]_vars

\* C5 witness: after a stream was opened on a session and the transport
\* was closed, a second invocation returned the disconnected result.
C5_Witness ==
  /\ status = "closed"
  /\ streams[1].session_id # NoSession
  /\ streams[2].used
  /\ DisconnectedResult(streams[2])

\* The envelopes ever constructed for stream i with the StreamCancel bit.
CancelEnvelopes(i) ==
  {<<sid, k>> \in SessionIds \X (1..MaxSeq + 1) :
     /\ k <= Len(log[sid].sent)
     /\ log[sid].sent[k].stream_id = i
     /\ is_stream_cancel(log[sid].sent[k].control_flags)}

\* C6, the step: the abort signal of a stream whose readable is still open
\* fires.  CANCEL is pushed and the readable closed, the writable is
\* closed, and one StreamCancel envelope with the CANCEL payload for that
\* stream is constructed by the stream's session and appended to its send
\* buffer, with a seq above the stream's init envelope; no other session
\* changes.
C6_AbortStep ==
  \A i \in StreamIds :
    (Abort(i) /\ ~streams[i].r_closed) =>
      LET sid == streams[i].session_id
          m   == [seq |-> session[sid].seq, ack |-> session[sid].ack,
                  payload |-> CANCEL_CODE, stream_id |-> i,
                  control_flags |-> StreamCancelBit, named |-> FALSE, ser |-> TRUE]
      IN /\ streams'[i].pushed = Append(streams[i].pushed, CANCEL_CODE)
         /\ streams'[i].r_closed
         /\ streams'[i].w_closed
         /\ session'[sid].seq = session[sid].seq + 1
         /\ session'[sid].send_buffer = Append(session[sid].send_buffer, m)
         /\ log'[sid].sent = Append(log[sid].sent, m)
         /\ \E k \in 1..Len(log[sid].sent) :
              /\ log[sid].sent[k].named
              /\ log[sid].sent[k].stream_id = i
              /\ log[sid].sent[k].seq < m.seq
         /\ \A o \in SessionIds \ {sid} : session'[o] = session[o] /\ log'[o] = log[o]

\* A closed readable takes no further value: the last value it was given
\* stays its last.
ClosedReadableKeepsValues ==
  \A i \in StreamIds :
    streams[i].r_closed => streams'[i].r_closed /\ streams'[i].pushed = streams[i].pushed

\* C6, the rest: a stream has at most one StreamCancel envelope.
C6_OneCancelEnvelope == \A i \in StreamIds : Cardinality(CancelEnvelopes(i)) <= 1

\* C6: see the parts; a stream is in flight while its readable is open.
C6_AbortInFlight == []C6_OneCancelEnvelope /\ [][C6_AbortStep /\ ClosedReadableKeepsValues]_vars

\* C6 witness: the abort fired on a stream that had delivered a value; the
\* readable ends with CANCEL and the StreamCancel envelope has seq 1.
C6_Witness ==
  \E i \in StreamIds :
    /\ streams[i].abort = "fired"
    /\ streams[i].pushed = <<"ok", CANCEL_CODE>>
    /\ streams[i].r_closed /\ streams[i].w_closed
    /\ \E x \in CancelEnvelopes(i) : log[x[1]].sent[x[2]].seq = 1

\* The envelopes a step constructs for stream i.
NewEnvelopes(i) ==
  {m \in UNION {{log'[sid].sent[k] : k \in (Len(log[sid].sent) + 1)..Len(log'[sid].sent)} :
                   sid \in SessionIds} : m.stream_id = i}

\* C7, the step: a message with the StreamCancel bit is dispatched for a
\* stream whose readable is open.  Its payload is pushed, as it is when it
\* is a result and wrapped as an error otherwise, the readable is closed
\* and the writable is closed, and no envelope is constructed.
C7_CancelStep ==
  \A l \in listen_tasks : \A frame \in StreamFrames(l.sid) :
    (/\ is_stream_cancel(frame.control_flags)
     /\ frame.to_me
     /\ streams[frame.stream_id].used
     /\ ~streams[frame.stream_id].r_closed
     /\ ~session[l.sid].destroyed
     /\ ListenFrame(l, frame)) =>
      LET i == frame.stream_id
      IN /\ streams'[i].pushed =
              Append(streams[i].pushed,
                     IF frame.payload \in {"ok", "err", CANCEL_CODE}
                     THEN frame.payload ELSE UNKNOWN_CODE)
         /\ streams'[i].r_closed
         /\ streams'[i].w_closed
         /\ ~streams'[i].clean_close
         /\ NewEnvelopes(i) = {}

\* C7, from then on: once the writable of a stream is closed, whatever the
\* application calls, every envelope constructed for the stream carries the
\* StreamCancel bit (so none is a StreamClosed or a payload envelope), and
\* the writable stays closed.
C7_NothingAfter ==
  \A i \in StreamIds :
    streams[i].w_closed =>
      /\ streams'[i].w_closed
      /\ \A m \in NewEnvelopes(i) : m.control_flags = StreamCancelBit

\* C7: see the two parts.
C7_ServerCancel == [][C7_CancelStep /\ C7_NothingAfter]_vars

\* C7 witness: the server cancelled an upload or a stream whose writable
\* the application had left open; the readable holds the cancel payload,
\* nothing but the init envelope was constructed, and the session lives on.
C7_Witness ==
  \E i \in StreamIds :
    /\ streams[i].proc_type \in {"stream", "upload"}
    /\ streams[i].abort # "fired"
    /\ streams[i].pushed = <<CANCEL_CODE>>
    /\ streams[i].r_closed /\ streams[i].w_closed
    /\ Live(streams[i].session_id)
    /\ Len(log[streams[i].session_id].sent) = 1

\* C8, the step: a session is deleted.  Every stream opened on it whose
\* readable is not closed is given UNEXPECTED_DISCONNECT, its readable is
\* closed and its writable is closed; a stream opened on it whose readable
\* is closed keeps its values; every other stream is left as it was.
C8_DeletionStep ==
  \A sid \in SessionIds :
    (~session[sid].destroyed /\ session'[sid].destroyed) =>
      /\ session[sid].created
      /\ sessions[SERVER] = sid
      /\ sessions'[SERVER] # sid
      /\ \A i \in StreamIds :
           IF streams[i].used /\ streams[i].session_id = sid
           THEN /\ streams'[i].r_closed
                /\ streams'[i].w_closed
                /\ streams'[i].pushed =
                     IF streams[i].r_closed THEN streams[i].pushed
                     ELSE Append(streams[i].pushed, UNEXPECTED_DISCONNECT_CODE)
           ELSE streams'[i] = streams[i]

\* C8: see the step; and what a closed readable holds never changes.
C8_SessionDeleted == [][C8_DeletionStep /\ ClosedReadableKeepsValues]_vars

\* C8 witness: two sessions were deleted, each with one stream opened on
\* it; each stream holds one UNEXPECTED_DISCONNECT and nothing else.
C8_Witness ==
  /\ session[1].destroyed /\ session[2].destroyed
  /\ streams[1].session_id = 1 /\ streams[2].session_id = 2
  /\ streams[1].pushed = <<UNEXPECTED_DISCONNECT_CODE>>
  /\ streams[2].pushed = <<UNEXPECTED_DISCONNECT_CODE>>
  /\ streams[1].w_closed /\ streams[2].w_closed

\* The positions of the terminating error results in what a readable was
\* given.
Terminating(st) ==
  {k \in 1..Len(st.pushed) : st.pushed[k] \in {CANCEL_CODE, UNEXPECTED_DISCONNECT_CODE}}

\* C9: however the client's abort, the server's StreamCancel and
\* StreamClosed messages and the closing of the session interleave on a
\* stream, its readable is given at most one CANCEL or
\* UNEXPECTED_DISCONNECT result, that result is the last value it holds and
\* closes it, and a closed readable is given nothing more.
C9_OneTerminating ==
  \A i \in StreamIds :
    /\ Cardinality(Terminating(streams[i])) <= 1
    /\ Terminating(streams[i]) # {} =>
         /\ Terminating(streams[i]) = {Len(streams[i].pushed)}
         /\ streams[i].r_closed

C9_SingleTermination == []C9_OneTerminating /\ [][ClosedReadableKeepsValues]_vars

\* C9 witness: a stream delivered a value, a second message was dispatched,
\* its session was deleted and its abort signal fired; it holds the value
\* and one UNEXPECTED_DISCONNECT.
C9_Witness ==
  \E i \in StreamIds :
    /\ streams[i].abort = "fired"
    /\ streams[i].session_id # NoSession
    /\ session[streams[i].session_id].destroyed
    /\ Len(log[streams[i].session_id].dispatched) = 2
    /\ streams[i].pushed = <<"ok", UNEXPECTED_DISCONNECT_CODE>>

\* C10 as stated: once the readable and the writable of a stream are
\* closed by a normal completion, a cancel of the server or an abort (so
\* not by a disconnect), no step (an abort trigger, a writable.close(), a
\* listener removal) constructs an envelope for the stream or gives its
\* readable a value.
C10_Original ==
  [][\A i \in StreamIds :
       (/\ streams[i].used /\ streams[i].r_closed /\ streams[i].w_closed
        /\ UNEXPECTED_DISCONNECT_CODE \notin Range(streams[i].pushed)) =>
         /\ streams'[i].pushed = streams[i].pushed
         /\ NewEnvelopes(i) = {}]_vars

\* C11 as stated: a stream whose readable is closed and whose writable is
\* closed has no `message` and no `sessionStatus` listener registered.
C11_Original ==
  \A i \in StreamIds :
    (streams[i].used /\ streams[i].r_closed /\ streams[i].w_closed) => ~streams[i].registered

\* The values among the results the consumer of the Readable received.
OutcomeValues(r) ==
  [k \in 1..Len(SelectSeq(r.outcomes, LAMBDA o : o.kind = "value")) |->
     SelectSeq(r.outcomes, LAMBDA o : o.kind = "value")[k].v]

\* A read of the single consumer starts or resumes.
ReadStarts == ReadNext \/ Anext \/ (Collect /\ ~readable.locked)

\* C12: on a Readable that was never broken and whose iterator was not
\* dropped with values queued, the values delivered so far followed by the
\* values still queued are the values pushed, in order; a read that
\* reported done did so on a closed Readable with everything pushed
\* delivered; and a read on a closed and drained Readable reports done.
C12_DeliveredThenQueued ==
  (~readable.broken /\ ~readable.discarded) =>
    /\ OutcomeValues(readable) \o readable.queue = readable.pushed
    /\ (\E k \in 1..Len(readable.outcomes) : readable.outcomes[k] = DoneOutcome) =>
         (readable.closed /\ OutcomeValues(readable) = readable.pushed)

C12_DoneAfterLast ==
  (/\ readable.closed /\ readable.queue = <<>> /\ ~readable.broken
   /\ (ReadStarts \/ Resume)) =>
     readable'.outcomes = Append(readable.outcomes, DoneOutcome)

C12_InOrder == []C12_DeliveredThenQueued /\ [][C12_DoneAfterLast]_vars

C12_Witness ==
  /\ readable.closed /\ ~readable.broken /\ ~readable.discarded
  /\ Len(readable.pushed) >= 2
  /\ readable.pushed[1] # readable.pushed[2]
  /\ OutcomeValues(readable) = readable.pushed
  /\ readable.outcomes[Len(readable.outcomes)] = DoneOutcome

\* C13 as stated: once break_ has set broken, the first result the
\* consumer receives is the one READABLE_BROKEN result and every result
\* after it is done; no value is delivered after the break.
C13_Original ==
  readable.broke_at >= 0 =>
    \A k \in (readable.broke_at + 1)..Len(readable.outcomes) :
      readable.outcomes[k] =
        IF k = readable.broke_at + 1 THEN BrokenOutcome ELSE DoneOutcome

\* C14: __aiter__, collect and break_ each leave the Readable locked; on a
\* locked Readable a call of __aiter__ or of collect raises and changes
\* nothing else (queue, closed, broken, the pending read and the iterator
\* stay as they were); so at most one call of __aiter__ or collect ever
\* succeeds.
C14_LockedOnce ==
  /\ readable.acquired <= 1
  /\ (readable.acquired = 1 \/ readable.iterator # "none" \/ readable.pending # "idle"
        \/ readable.broke_at >= 0) => readable.locked

C14_AcquireStep ==
  /\ (Aiter \/ Collect \/ Break) => readable'.locked
  /\ (readable.locked /\ (Aiter \/ Collect)) => readable' = Raised(readable)

C14_SingleAcquisition == []C14_LockedOnce /\ [][C14_AcquireStep]_vars

C14_Witness ==
  /\ readable.acquired = 1
  /\ readable.iterator = "live"
  /\ ~readable.closed
  /\ readable.usage_errors >= 1
  /\ readable.queue # <<>>

\* C15: the close callback of a Writable has run once if the Writable is
\* closed and never otherwise; a closed Writable stays closed; on a closed
\* Writable a close changes nothing and calls neither callback, and a
\* write raises without calling the write callback.
C15_CloseCallbackOnce ==
  /\ writable.close_cb = (IF writable.closed THEN 1 ELSE 0)
  /\ writable.closed <=> writable.close_calls >= 1

C15_AfterClose ==
  writable.closed =>
    /\ writable'.closed
    /\ writable'.close_cb = writable.close_cb
    /\ writable'.write_cb = writable.write_cb
    /\ (\E value \in BOOLEAN : WritableStep(Writable_close(writable, value))) =>
         writable'.errors = writable.errors
    /\ WritableStep(Writable_write(writable, TRUE)) =>
         writable'.errors = writable.errors + 1

C15_CloseIdempotent == []C15_CloseCallbackOnce /\ [][C15_AfterClose]_vars

C15_Witness ==
  /\ writable.closed
  /\ writable.close_calls >= 2
  /\ writable.errors >= 1
  /\ writable.write_cb >= 1

\* C16: the handshake request of every attempt has seq 0, ack 0, control
\* flags 0 and stream id "handshake"; when it is built it carries the
\* session's ack as nextExpectedSeq and, as nextSentSeq, the seq of the
\* head of the send buffer if there is one and the session's seq if not;
\* building it changes nothing of the session and constructs no envelope.
C16_HandshakeFields ==
  \A t \in TaskIds :
    tasks[t].pc = "handshaking" =>
      /\ tasks[t].hs_msg.stream_id = "handshake"
      /\ tasks[t].hs_msg.seq = 0
      /\ tasks[t].hs_msg.ack = 0
      /\ tasks[t].hs_msg.control_flags = 0
      /\ tasks[t].hs_msg.session_id = tasks[t].sid

C16_BuildStep ==
  \A t \in TaskIds :
    (ConnectionOpened(t) /\ tasks'[t].pc = "handshaking") =>
      LET sid == tasks[t].sid
      IN /\ tasks'[t].hs_msg.next_expected_seq = session[sid].ack
         /\ tasks'[t].hs_msg.next_sent_seq =
              IF session[sid].send_buffer # <<>>
              THEN session[sid].send_buffer[1].seq ELSE session[sid].seq
         /\ session'[sid].seq = session[sid].seq
         /\ session'[sid].ack = session[sid].ack
         /\ session'[sid].send_buffer = session[sid].send_buffer
         /\ log'[sid].sent = log[sid].sent
         /\ wire' = wire

C16_HandshakeRequest == []C16_HandshakeFields /\ [][C16_BuildStep]_vars

C16_Witness ==
  \E t \in TaskIds :
    /\ tasks[t].pc = "handshaking"
    /\ session[tasks[t].sid].ack >= 1
    /\ tasks[t].hs_msg.next_expected_seq = session[tasks[t].sid].ack
    /\ session[tasks[t].sid].send_buffer # <<>>
    /\ tasks[t].hs_msg.next_sent_seq = session[tasks[t].sid].send_buffer[1].seq
    /\ tasks[t].hs_msg.next_sent_seq < session[tasks[t].sid].seq

\* C17 as stated: when the handshake of the peer's live session is
\* rejected with a fatal code, a protocolError carrying the code is
\* emitted, the session goes to NoConnection, and the rejection queues no
\* call of connect and starts no attempt.
C17_Original ==
  [][\A t \in TaskIds :
       (/\ tasks[t].pc = "handshaking"
        /\ Live(tasks[t].sid) /\ sessions[tasks[t].to] = tasks[t].sid
        /\ HandshakeResponse(t, "fatal")) =>
         /\ emitted' = <<[event |-> "protocolError", detail |-> "fatal", sid |-> NoSession]>>
         /\ session'[tasks[t].sid].state = "NoConnection"
         /\ ready' = ready
         /\ \A u \in TaskIds : tasks[u].pc = "none" => tasks'[u].pc = "none"]_vars

SessionStatusEvent(detail, sid) == [event |-> "sessionStatus", detail |-> detail, sid |-> sid]

\* C18, the rejection: a SESSION_STATE_MISMATCH answer to the handshake of
\* the peer's live session emits closing then closed for it, destroys it
\* with its send buffer dropped, leaves the peer without a session and
\* queues a call of connect.
C18_MismatchStep ==
  \A t \in TaskIds :
    (/\ tasks[t].pc = "handshaking"
     /\ Live(tasks[t].sid) /\ sessions[tasks[t].to] = tasks[t].sid
     /\ HandshakeResponse(t, "SESSION_STATE_MISMATCH")) =>
       LET sid == tasks[t].sid
       IN /\ emitted' = <<SessionStatusEvent("closing", sid), SessionStatusEvent("closed", sid)>>
          /\ session'[sid].destroyed
          /\ session'[sid].send_buffer = <<>>
          /\ sessions'[tasks[t].to] = NoSession
          /\ ready' = Append(ready, [type |-> "connect", to |-> tasks[t].to])

\* C18, the next attempt: a session is created with an id no session had,
\* seq 0, ack 0 and an empty send buffer, and an attempt always starts on
\* the peer's current session, which is not destroyed.
C18_FreshStep ==
  /\ \A id \in SessionIds :
       (~session[id].created /\ session'[id].created) =>
         /\ session'[id].seq = 0 /\ session'[id].ack = 0
         /\ session'[id].send_buffer = <<>>
         /\ ~session'[id].destroyed
         /\ session[id] = NewSession
  /\ \A t \in TaskIds :
       (tasks[t].pc = "none" /\ tasks'[t].pc # "none") =>
         /\ tasks'[t].sid = sessions'[tasks'[t].to]
         /\ session'[tasks'[t].sid].created
         /\ ~session'[tasks'[t].sid].destroyed

\* C18, the wire: what a session writes on its connection are envelopes it
\* constructed itself, so a session that has constructed nothing has
\* written nothing, whatever an earlier session had buffered.
C18_OwnEnvelopesOnly ==
  \A sid \in SessionIds :
    (session[sid].created /\ session[sid].ws # NoWs) =>
      \A k \in 1..Len(wire[session[sid].ws]) : wire[session[sid].ws][k] < session[sid].seq

C18_FreshSession == []C18_OwnEnvelopesOnly /\ [][C18_MismatchStep /\ C18_FreshStep]_vars

C18_Witness ==
  \E sid \in SessionIds, t \in TaskIds :
    /\ session[sid].destroyed
    /\ session[sid].seq >= 1
    /\ emitted = <<SessionStatusEvent("closing", sid), SessionStatusEvent("closed", sid)>>
    /\ t \in ws_closed
    /\ tasks[t].pc = "done"
    /\ ready # <<>>
    /\ ready[Len(ready)] = [type |-> "connect", to |-> SERVER]

\* C19 as stated, in the form a finite run decides: a session that is not
\* destroyed and is in NoConnection has its grace timer running (the timer
\* whose expiry destroys it).
C19_Original ==
  \A sid \in SessionIds :
    (Live(sid) /\ session[sid].state = "NoConnection") => session[sid].grace_period_task

\* The events of a close: closing then closed for the peer's session, if
\* it has one, then transportStatus closed.
CloseEvents(sid) ==
  (IF sid = NoSession THEN <<>>
   ELSE <<SessionStatusEvent("closing", sid), SessionStatusEvent("closed", sid)>>)
    \o <<[event |-> "transportStatus", detail |-> "closed", sid |-> NoSession]>>

\* C20, the close: the first close destroys the peer's session, emits
\* closing then closed for it and then transportStatus closed, and leaves
\* the session map empty.
C20_CloseStep ==
  (status = "open" /\ Close) =>
    /\ status' = "closed"
    /\ emitted' = CloseEvents(sessions[SERVER])
    /\ sessions[SERVER] # NoSession => session'[sessions[SERVER]].destroyed
    /\ \A to \in Peers : sessions'[to] = NoSession

\* C20, afterwards: on a closed transport the session map stays empty, no
\* session becomes Connected, no attempt is started, and a close changes
\* nothing and emits nothing.
C20_AfterClose ==
  status = "closed" =>
    /\ status' = "closed"
    /\ \A to \in Peers : sessions'[to] = NoSession
    /\ \A sid \in SessionIds :
         session'[sid].state = "Connected" => session[sid].state = "Connected"
    /\ \A t \in TaskIds : tasks[t].pc = "none" => tasks'[t].pc = "none"
    /\ Close => (emitted' = <<>> /\ session' = session /\ tasks' = tasks /\ ready' = ready)

\* C20 as stated.
C20_Original == [][C20_CloseStep /\ C20_AfterClose]_vars

\* C21: for both codecs and every message whose payload is built of maps,
\* lists, integers, strings and byte strings, a map whose only key is "$t"
\* or "$b" included, decoding the encoding of the message succeeds and
\* yields a message equal to it field by field.
C21_Original ==
  call.step = "returned" => (call.out.ok /\ call.out.msg = call.msg)

\* C22: decoding a frame through the adapter returns no message whenever
\* the bytes are not decodable or the decoded object lacks one of id, from,
\* to, seq, ack, payload, streamId, controlFlags, and returns the message
\* when all of them are present.
C22_Original ==
  call.step = "received" =>
    LET raw == Codec_from_buffer(call.codec, call.buf)
        complete == raw.t = "map" /\ \A k \in required_with_control_flags : HasKey(raw, k)
    IN /\ call.out.ok <=> complete
       /\ ~call.out.ok => call.out.msg = NoMessage
       /\ call.out.ok => call.out.msg = from_dict(raw)

\* C23: get_backoff_ms() returns exactly 0 when nothing is consumed, a
\* value in [base, base + max_jitter] when one unit is consumed, and for
\* every consumed >= 1 a value in [b, b + max_jitter] with
\* b = min(base * 2^(consumed - 1), max_backoff), hence a value in
\* [max_backoff, max_backoff + max_jitter] once base * 2^(consumed - 1)
\* reaches max_backoff; the call leaves the consumed budget as it was.
C23_Range ==
  call.step = "get_backoff_ms" =>
    LET c == call.consumed
        b == Min(base_interval_ms * (2 ^ (c - 1)), max_backoff_ms)
    IN /\ c = 0 => call.ms = 0
       /\ c = 1 => call.ms \in base_interval_ms..(base_interval_ms + max_jitter_ms)
       /\ c >= 1 => call.ms \in b..(b + max_jitter_ms)
       /\ (c >= 1 /\ base_interval_ms * (2 ^ (c - 1)) >= max_backoff_ms) =>
            call.ms \in max_backoff_ms..(max_backoff_ms + max_jitter_ms)

C23_ConsumedKept ==
  GetBackoffMs => (retry_budget' = retry_budget /\ call'.consumed = retry_budget.budget_consumed)

C23_Backoff == []C23_Range /\ [][C23_ConsumedKept]_vars

C23_Witness ==
  /\ call.step = "get_backoff_ms"
  /\ call.consumed = MaxConsumed
  /\ base_interval_ms * (2 ^ (call.consumed - 1)) > max_backoff_ms
  /\ call.ms = max_backoff_ms + max_jitter_ms - 1
  /\ retry_budget.budget_consumed = 1

\* C24: an inbound frame whose seq is below the session's ack is dropped
\* as a duplicate with no effect at all: ack, seq and send buffer stay as
\* they were (the frame's ack field truncates nothing), the heartbeat-miss
\* timer is not reset, no `message` event is dispatched and no heartbeat
\* is echoed.
C24_DuplicateDropped ==
  \A l \in listen_tasks : \A frame \in SessionFrames(l.sid) :
    (/\ frame.decodable
     /\ ~session[l.sid].destroyed
     /\ frame.seq < session[l.sid].ack)
    => on_message_data(Cur, l.sid, frame, SERVER)
         = [Cur EXCEPT !.log[l.sid].out_of_order = @ \cup {"duplicate"}]

\* A duplicate was dropped by a session that holds an envelope the
\* duplicate's ack would have removed, and by one whose heartbeat-miss
\* timer was not running.
C24_Witness ==
  \E sid \in SessionIds :
    /\ "duplicate" \in log[sid].out_of_order
    /\ session[sid].send_buffer # <<>>
    /\ session[sid].send_buffer[1].seq < session[sid].seq - 1
    /\ ~session[sid].heartbeat_miss_task
    /\ ~session[sid].destroyed

C25_FutureFrame ==
  \A l \in listen_tasks : \A frame \in SessionFrames(l.sid) :
    (/\ frame.decodable
     /\ ~session[l.sid].destroyed
     /\ frame.seq > session[l.sid].ack)
    => on_message_data(Cur, l.sid, frame, SERVER)
         = [Cur EXCEPT !.ws_closed = @ \cup ({session[l.sid].ws} \ {NoWs}),
                       !.log[l.sid].out_of_order = @ \cup {"future"}]

\* C25, the drop: when the listener of the connection so closed ends, the
\* session goes to NoConnection with its id, seq, ack and send buffer, and
\* a reconnect is scheduled.
C25_Drop ==
  \A l \in listen_tasks :
    (/\ Live(l.sid)
     /\ "future" \in log[l.sid].out_of_order
     /\ session[l.sid].state = "Connected"
     /\ session[l.sid].ws = l.ws
     /\ l.ws \in ws_closed
     /\ ListenEnd(l)) =>
      /\ sessions' = sessions
      /\ sessions[SERVER] = l.sid
      /\ session'[l.sid].state = "NoConnection"
      /\ session'[l.sid].seq = session[l.sid].seq
      /\ session'[l.sid].ack = session[l.sid].ack
      /\ session'[l.sid].send_buffer = session[l.sid].send_buffer
      /\ ready' = Append(ready, [type |-> "connect", to |-> SERVER])

\* C25, the handshake: the request carries the id of that session and its
\* ack as nextExpectedSeq.
C25_Rehandshake ==
  \A t \in TaskIds :
    (/\ tasks[t].pc = "connecting"
     /\ "future" \in log[tasks[t].sid].out_of_order
     /\ ConnectionOpened(t)
     /\ tasks'[t].pc = "handshaking") =>
      /\ tasks'[t].hs_msg.session_id = tasks[t].sid
      /\ sessions[SERVER] = tasks[t].sid
      /\ tasks'[t].hs_msg.next_expected_seq = session[tasks[t].sid].ack
      /\ session'[tasks[t].sid].ack = session[tasks[t].sid].ack

\* C25, the retransmission: the successful response schedules the write of
\* every buffered envelope, in order, when all of them serialize, and
\* deletes the session when one does not.
C25_Retransmit ==
  \A t \in TaskIds :
    (/\ tasks[t].pc = "handshaking"
     /\ Live(tasks[t].sid)
     /\ "future" \in log[tasks[t].sid].out_of_order
     /\ HandshakeResponse(t, "ok")) =>
      LET sid == tasks[t].sid
      IN IF AllSerialize(session[sid].send_buffer)
         THEN /\ session'[sid].state = "Connected"
              /\ session'[sid].ws = t
              /\ session'[sid].send_buffer = session[sid].send_buffer
              /\ WriteSeqs(ready', sid)
                   = WriteSeqs(ready, sid) \o SeqOf(session[sid].send_buffer)
         ELSE /\ session'[sid].destroyed
              /\ sessions'[SERVER] = NoSession

C26_HeartbeatFrame ==
  \A l \in listen_tasks : \A frame \in SessionFrames(l.sid) :
    (/\ frame.decodable
     /\ ~session[l.sid].destroyed
     /\ is_ack(frame.control_flags)
     /\ frame.seq = session[l.sid].ack
     /\ session[l.sid].seq < MaxSeq)
    => LET s    == session[l.sid]
           w    == on_message_data(Cur, l.sid, frame, SERVER)
           echo == [seq |-> s.seq, ack |-> frame.seq + 1, payload |-> "ACK",
                    stream_id |-> "heartbeat", control_flags |-> AckBit,
                    named |-> FALSE, ser |-> TRUE]
       IN /\ w.session[l.sid].ack = frame.seq + 1
          /\ w.session[l.sid].seq = s.seq + 1
          /\ w.session[l.sid].send_buffer
               = Append(SelectSeq(s.send_buffer, LAMBDA m : m.seq >= frame.ack), echo)
          /\ w.log[l.sid].sent = Append(log[l.sid].sent, echo)
          /\ w.log[l.sid].dispatched = log[l.sid].dispatched
          /\ w.streams = streams
          /\ w.events = <<>>
          /\ w.ready = IF s.state = "Connected" /\ s.ws # NoWs
                       THEN Append(ready, [type |-> "write", sid |-> l.sid, seq |-> s.seq])
                       ELSE ready

\* C26, the heartbeats: the envelopes with the Ack bit a session has built
\* are as many as the envelopes with the Ack bit it has accepted, and none
\* of the accepted ones was dispatched.
C26_EchoesOnly ==
  \A sid \in SessionIds :
    /\ Len(SelectSeq(log[sid].sent, LAMBDA m : is_ack(m.control_flags)))
         = Len(SelectSeq(log[sid].accepted, LAMBDA e : e.hb))
    /\ \A k \in 1..Len(log[sid].accepted) :
         log[sid].accepted[k].hb => log[sid].accepted[k].seq \notin Range(log[sid].dispatched)

\* C26: an accepted envelope with the Ack bit updates ack and truncates the
\* send buffer, is never dispatched as a `message` event, and is answered
\* with exactly one heartbeat envelope that takes the next seq, carries
\* ack = received seq + 1 and is appended to the send buffer; the client
\* builds no heartbeat other than such an echo.
C26_HeartbeatEcho == C26_HeartbeatFrame /\ C26_EchoesOnly

\* C26 witness: a session has echoed a heartbeat that acknowledged its
\* envelope 0: the echo, envelope 1 with ack 1, is all its send buffer
\* holds, and it was written to the connection.
C26_Witness ==
  \E sid \in SessionIds :
    /\ Live(sid)
    /\ session[sid].state = "Connected"
    /\ session[sid].ack = 1
    /\ Len(session[sid].send_buffer) = 1
    /\ session[sid].send_buffer[1].seq = 1
    /\ is_ack(session[sid].send_buffer[1].control_flags)
    /\ session[sid].send_buffer[1].payload = "ACK"
    /\ session[sid].send_buffer[1].ack = 1
    /\ log[sid].accepted = <<[seq |-> 0, hb |-> TRUE]>>
    /\ session[sid].ws # NoWs
    /\ wire[session[sid].ws] = <<0, 1>>

\* C27: an inbound frame that cannot be decoded or validated (bytes no
\* codec decodes, or a map that lacks a required key) is reported with a
\* protocolError of type invalid_message and has no other effect: the
\* session stays as it is on the same connection, with its ack, seq and
\* send buffer.
C27_Original ==
  \A l \in listen_tasks : \A frame \in SessionFrames(l.sid) :
    (/\ ~session[l.sid].destroyed
     /\ (~frame.decodable \/ frame.lacks \cap required_with_control_flags # {}))
    => on_message_data(Cur, l.sid, frame, SERVER)
         = [Cur EXCEPT !.events = <<[event |-> "protocolError", detail |-> "invalid_message",
                                     sid |-> NoSession]>>]

\* The attempts of session sid that have not finished.
Running(sid) ==
  {t \in TaskIds : tasks[t].sid = sid
                    /\ tasks[t].pc \in {"created", "sleeping", "connecting", "handshaking"}}

C29_Bounds ==
  /\ retry_budget.budget_consumed >= 0
  /\ retry_budget.budget_consumed <= attempt_budget_capacity

\* C29, the attempts: the budget consumed grows by one unit exactly in the
\* steps that start an attempt.
C29_UnitPerAttempt ==
  LET started == {t \in TaskIds : tasks[t].pc = "none" /\ tasks'[t].pc # "none"}
  IN /\ retry_budget'.budget_consumed > retry_budget.budget_consumed
          => retry_budget'.budget_consumed = retry_budget.budget_consumed + 1
     /\ Cardinality(started)
          = IF retry_budget'.budget_consumed > retry_budget.budget_consumed THEN 1 ELSE 0

\* C29, the exhausted budget: a connect made for a session in NoConnection
\* when the budget consumed equals the capacity dispatches protocolError
\* conn_retry_exceeded and does nothing else: no attempt is started, the
\* session stays in NoConnection and the budget is as it was.
C29_Exhausted ==
  (/\ status = "open"
   /\ sessions[SERVER] # NoSession
   /\ session[sessions[SERVER]].state = "NoConnection"
   /\ retry_budget.budget_consumed = attempt_budget_capacity)
  => connect(Cur, SERVER)
       = [Cur EXCEPT !.events = <<[event |-> "protocolError", detail |-> "conn_retry_exceeded",
                                   sid |-> NoSession]>>]

\* C29: 0 <= consumed <= capacity in every reachable state; connect
\* consumes one unit per attempt it starts, and a connect made when
\* consumed equals capacity dispatches protocolError conn_retry_exceeded,
\* starts no attempt and leaves the session in NoConnection with consumed
\* unchanged.
C29_RetryBudget == [](C29_Bounds /\ C29_Exhausted) /\ [][C29_UnitPerAttempt]_vars

\* C29 witness: a connect has just been refused for want of budget.
C29_Witness ==
  /\ retry_budget.budget_consumed = attempt_budget_capacity
  /\ emitted = <<[event |-> "protocolError", detail |-> "conn_retry_exceeded",
                  sid |-> NoSession]>>
  /\ sessions[SERVER] # NoSession
  /\ session[sessions[SERVER]].state = "NoConnection"
  /\ \A t \in TaskIds : tasks[t].pc = "done"

\* What C30 says of a drop of the connection of session sid.
C30_Dropped(sid) ==
  /\ sessions' = sessions
  /\ ~session'[sid].destroyed
  /\ session'[sid].state = "NoConnection"
  /\ session'[sid].seq = session[sid].seq
  /\ session'[sid].ack = session[sid].ack
  /\ session'[sid].send_buffer = session[sid].send_buffer
  /\ ~session'[sid].heartbeat_miss_task
  /\ ~session'[sid].is_actively_heartbeating
  /\ session'[sid].ws = NoWs
  /\ ws_closed' = ws_closed \cup {session[sid].ws}
  /\ session'[sid].grace_period_task
  /\ ready' = IF reconnect_on_connection_drop /\ status = "open"
              THEN Append(ready, [type |-> "connect", to |-> SERVER])
              ELSE ready
  /\ tasks' = tasks
  /\ retry_budget' = retry_budget

\* C30, the socket: the listener of the current connection of a connected
\* session ends.
C30_ConnectionDrop ==
  \A l \in listen_tasks :
    (/\ Live(l.sid)
     /\ session[l.sid].state = "Connected"
     /\ session[l.sid].ws = l.ws
     /\ ListenEnd(l)) => C30_Dropped(l.sid)

\* C30, the timer: the heartbeat-miss timer of a connected session expires.
C30_MissedHeartbeats ==
  \A sid \in SessionIds :
    (/\ Live(sid)
     /\ session[sid].state = "Connected"
     /\ session[sid].heartbeat_miss_task
     /\ HeartbeatMiss(sid)) => C30_Dropped(sid)

\* C30: when the current connection of a connected session drops or its
\* heartbeat-miss timer expires, the session goes to NoConnection with its
\* id, seq, ack and send buffer, its heartbeat timers are cancelled, its
\* socket handle is cleared and the socket closed, a grace timer is
\* started, and a reconnect is scheduled if reconnect-on-drop is enabled
\* and the transport is open.
C30_DropToNoConnection == [][C30_ConnectionDrop /\ C30_MissedHeartbeats]_vars

\* C30 witness: a session that had sent and received lost its connection
\* while reconnect-on-drop was off: it waits in NoConnection under its
\* grace timer with its buffer, and nothing is scheduled.
C30_Witness ==
  \E sid \in SessionIds :
    /\ Live(sid)
    /\ sessions[SERVER] = sid
    /\ session[sid].state = "NoConnection"
    /\ session[sid].grace_period_task
    /\ ~session[sid].heartbeat_miss_task
    /\ session[sid].ws = NoWs
    /\ 1 \in ws_closed
    /\ session[sid].ack = 1
    /\ session[sid].send_buffer # <<>>
    /\ ~reconnect_on_connection_drop
    /\ ready = <<>>
    /\ \A t \in TaskIds : tasks[t].pc \in {"none", "done"}

\* C31 as stated: in every reachable state a session that is not destroyed
\* holds a connection handle if and only if its state is Connected.
C31_Original ==
  \A sid \in SessionIds :
    Live(sid) => ((session[sid].ws # NoWs) <=> (session[sid].state = "Connected"))

\* C32 as stated: destruction is terminal.  A destroyed session stays
\* destroyed, does not become Connected, receives no connection handle, has
\* no timer started on it, and constructs and sends no envelope.
C32_Original ==
  [][\A sid \in SessionIds :
       session[sid].destroyed =>
         /\ session'[sid].destroyed
         /\ session'[sid].state = "Connected" => session[sid].state = "Connected"
         /\ session'[sid].ws = NoWs
         /\ ~session'[sid].heartbeat_miss_task
         /\ ~session'[sid].grace_period_task
         /\ session'[sid].seq = session[sid].seq
         /\ session'[sid].send_buffer = <<>>]_vars

\* C33 as stated: a dispatch calls the listeners registered when it
\* started, in the order of their registration, whatever the listeners
\* add or remove meanwhile.
C33_Original ==
  /\ Len(dispatcher.called) <= Len(dispatcher.at_start)
  /\ \A k \in 1..Len(dispatcher.called) : dispatcher.called[k] = dispatcher.at_start[k]
  /\ ~Dispatching => Len(dispatcher.called) = Len(dispatcher.at_start)

\* What C34 says of the session after a send whose envelope does not
\* serialize: the envelope is the last of the buffer with the seq the
\* session had, the seq counter is one higher, nothing is scheduled for the
\* socket, and the session is Connected on its socket as before.
C34_Kept(w, sid) ==
  LET s == w.session[sid]
  IN /\ s.send_buffer = Append(session[sid].send_buffer,
                               construct_msg(session[sid], Partial("data", 0, 0, FALSE, FALSE)))
     /\ s.seq = session[sid].seq + 1
     /\ s = [session[sid] EXCEPT !.seq = s.seq, !.send_buffer = s.send_buffer]
     /\ w.sessions = sessions
     /\ w.ready = ready

\* C34 as stated: when the envelope of a send on a Connected session does
\* not serialize, a protocolError is dispatched, the envelope stays in the
\* send buffer with its seq, the seq counter stays advanced, and the
\* session stays usable.
C34_Original ==
  \A sid \in SessionIds :
    (/\ Live(sid)
     /\ sessions[SERVER] = sid
     /\ session[sid].state = "Connected"
     /\ session[sid].ws # NoWs
     /\ session[sid].seq < MaxSeq) =>
      LET r == session_bound_send(Cur, SERVER, sid, Partial("data", 0, 0, FALSE, FALSE))
      IN /\ \E k \in 1..Len(r.w.events) : r.w.events[k].event = "protocolError"
         /\ C34_Kept(r.w, sid)

\* The value on_message pushes for a message, if its readable takes it.
C35_Value(frame) ==
  IF is_stream_cancel(frame.control_flags) THEN cancel_result(frame.payload)
  ELSE frame.payload

C35_HasValue(frame) ==
  \/ is_stream_cancel(frame.control_flags)
  \/ frame.payload \in {"ok", "err", CANCEL_CODE}

\* C35: with several streams on one session, a message read by a listener
\* leaves every stream other than the one whose id is its streamId as it
\* was, and every stream if it is not addressed to this client; the
\* readable of its own stream, if still open and listening, gets its value
\* appended after those of the earlier messages, and nothing else is pushed.
C35_OwnStreamOnly ==
  \A l \in listen_tasks :
    ~session[l.sid].destroyed =>
      \A frame \in StreamFrames(l.sid) :
        LET w == on_message_data(Cur, l.sid, frame, SERVER)
        IN \A j \in StreamIds :
             /\ (j # frame.stream_id \/ ~frame.to_me) => w.streams[j] = streams[j]
             /\ w.streams[j].pushed =
                  IF /\ j = frame.stream_id
                     /\ frame.to_me
                     /\ streams[j].registered
                     /\ ~streams[j].r_closed
                     /\ C35_HasValue(frame)
                  THEN Append(streams[j].pushed, C35_Value(frame))
                  ELSE streams[j].pushed

\* C35 witness: two streams listen on one connected session, and each has
\* received the one message the server sent on it.
C35_Witness ==
  /\ streams[1].registered /\ streams[2].registered
  /\ streams[1].session_id = streams[2].session_id
  /\ session[streams[1].session_id].state = "Connected"
  /\ session[streams[1].session_id].ack = 2
  /\ streams[1].pushed = <<"ok">>
  /\ streams[2].pushed = <<"err">>

\* The positions, among the values pushed, of the values handed to reads.
C36_Handed ==
  {readers.of[k].nth : k \in {j \in 1..Len(readers.of) : readers.of[j].outcome.kind = "value"}}

\* C36 as stated: the k-th next() issued receives the k-th value pushed,
\* and every value pushed is in the queue or was handed to one read.
C36_Original ==
  /\ \A k \in 1..Len(readers.of) :
       readers.of[k].outcome.kind = "value" =>
         /\ readers.of[k].nth = k
         /\ readers.of[k].outcome.v = readers.pushed[k]
  /\ C36_Handed = 1..(Len(readers.pushed) - Len(readers.queue))
  /\ \A j, k \in 1..Len(readers.of) :
       (/\ j # k
        /\ readers.of[j].outcome.kind = "value"
        /\ readers.of[k].outcome.kind = "value") => readers.of[j].nth # readers.of[k].nth

\* C37 as stated: when the read loop of a socket ends that is not the
\* current socket of a Connected session, that session stays as it was, no
\* socket is closed and no reconnect is scheduled.
C37_Original ==
  [][\A l \in listen_tasks :
       ListenEnd(l) =>
         \A sid \in SessionIds :
           (/\ Live(sid)
            /\ session[sid].state = "Connected"
            /\ session[sid].ws # l.ws) =>
             /\ session'[sid] = session[sid]
             /\ ws_closed' = ws_closed
             /\ ready' = ready]_vars

\* A step of the attempt t: the end of its backoff, its connection
\* opening, a failure, or the handshake response.
C38_StepOf(t) ==
  \/ BackoffElapsed(t)
  \/ ConnectionOpened(t)
  \/ TaskRaised(t)
  \/ \E resp \in HandshakeResponses : HandshakeResponse(t, resp)

\* C38 as stated: a session has at most one attempt in flight, a step of
\* an attempt leaves every session other than the one it was started for
\* in the state it had, and no session goes from Connected to BackingOff,
\* Connecting or Handshaking.
C38_Original ==
  [][/\ \A sid \in SessionIds : Cardinality(Running(sid)) <= 1
     /\ \A t \in TaskIds : \A sid \in SessionIds :
          (/\ tasks[t].sid # sid
           /\ Live(sid)
           /\ ~session'[sid].destroyed
           /\ C38_StepOf(t)) => session'[sid].state = session[sid].state
     /\ \A sid \in SessionIds :
          session[sid].state = "Connected" =>
            session'[sid].state \notin {"BackingOff", "Connecting", "Handshaking"}]_vars

\* C39 as stated: with every connection attempt failing, an rpc that was
\* invoked eventually has its result, UNEXPECTED_DISCONNECT.
C39_Original ==
  \A i \in StreamIds :
    (streams[i].used /\ streams[i].proc_type = "rpc") ~>
      (streams[i].pushed # <<>> /\ Head(streams[i].pushed) = UNEXPECTED_DISCONNECT_CODE)

\* The envelopes session sid constructed for stream i, in the order it was
\* handed them.
C40_Envelopes(i, sid) == SelectSeq(log[sid].sent, LAMBDA m : m.stream_id = i)

====
